---- MODULE Spec2Model ----
(***************************************************************************)
(* PyGoSQL: a directory tree of SQL files compiled into HTTP endpoints     *)
(* (sql_to_http.go), served over a mutex-guarded SQLite wrapper            *)
(* (database/database.go) and started by main.go.                          *)
(*                                                                         *)
(* Go strings are modelled as TLA+ strings; Len, SubSeq and \o act on      *)
(* them character by character, so the string functions of the Go          *)
(* standard library are written out below as the library computes them.    *)
(***************************************************************************)
EXTENDS Integers, Sequences, FiniteSets, TLC

\* ------------------------------------------------------------------------
\* Bounds of the model
\* ------------------------------------------------------------------------

\* Deepest directory nesting of a SQL file path drawn in SpecPath.
MaxDepth == 3

\* ------------------------------------------------------------------------
\* strings package
\* ------------------------------------------------------------------------

CharAt(s, i) == SubSeq(s, i, i)

\* The characters m..n of s that exist (a Go slice expression clipped to len(s)).
Slice(s, m, n) ==
    IF m > n \/ m > Len(s) THEN ""
    ELSE SubSeq(s, m, IF n > Len(s) THEN Len(s) ELSE n)

LowerLetters == "abcdefghijklmnopqrstuvwxyz"

UpperLetters == "ABCDEFGHIJKLMNOPQRSTUVWXYZ"

\* unicode.ToUpper on the ASCII letters, as a table from a lower-case letter.
UpperTable ==
    [c \in {CharAt(LowerLetters, i) : i \in 1..Len(LowerLetters)} |->
        CharAt(UpperLetters, CHOOSE i \in 1..Len(LowerLetters) : CharAt(LowerLetters, i) = c)]

\* unicode.ToLower on the ASCII letters, as a table from an upper-case letter.
LowerTable ==
    [c \in {CharAt(UpperLetters, i) : i \in 1..Len(UpperLetters)} |->
        CharAt(LowerLetters, CHOOSE i \in 1..Len(UpperLetters) : CharAt(UpperLetters, i) = c)]

UpperChar(c) == IF c \in DOMAIN UpperTable THEN UpperTable[c] ELSE c

LowerChar(c) == IF c \in DOMAIN LowerTable THEN LowerTable[c] ELSE c

\* strings.ToUpper: upper[i] is the upper-cased text from position i on.
ToUpper(s) ==
    LET upper[i \in 1..(Len(s) + 1)] ==
            IF i > Len(s) THEN "" ELSE UpperChar(CharAt(s, i)) \o upper[i + 1]
    IN upper[1]

\* strings.ToLower: lower[i] is the lower-cased text from position i on.
ToLower(s) ==
    LET lower[i \in 1..(Len(s) + 1)] ==
            IF i > Len(s) THEN "" ELSE LowerChar(CharAt(s, i)) \o lower[i + 1]
    IN lower[1]

HasPrefix(s, prefix) ==
    Len(s) >= Len(prefix) /\ SubSeq(s, 1, Len(prefix)) = prefix

HasSuffix(s, suffix) ==
    Len(s) >= Len(suffix) /\ SubSeq(s, Len(s) - Len(suffix) + 1, Len(s)) = suffix

\* strings.Index: the 0-based offset of the first occurrence of substr, -1 if none.
Index(s, substr) ==
    LET hits == {i \in 0..(Len(s) - Len(substr)) :
                    SubSeq(s, i + 1, i + Len(substr)) = substr}
    IN IF hits = {} THEN -1
       ELSE CHOOSE i \in hits : \A j \in hits : i <= j

Contains(s, substr) == Index(s, substr) >= 0

TrimSuffix(s, suffix) ==
    IF HasSuffix(s, suffix) THEN SubSeq(s, 1, Len(s) - Len(suffix)) ELSE s

\* strings.Split with a non-empty separator: every piece, empty ones included.
RECURSIVE Split(_, _)
Split(s, sep) ==
    LET i == Index(s, sep)
    IN IF i < 0 THEN <<s>>
       ELSE <<SubSeq(s, 1, i)>> \o Split(SubSeq(s, i + Len(sep) + 1, Len(s)), sep)

\* strings.ReplaceAll with a non-empty old: non-overlapping, left to right,
\* the inserted text is not scanned again.
RECURSIVE ReplaceAll(_, _, _)
ReplaceAll(s, old, new) ==
    LET i == Index(s, old)
    IN IF i < 0 THEN s
       ELSE SubSeq(s, 1, i) \o new
            \o ReplaceAll(SubSeq(s, i + Len(old) + 1, Len(s)), old, new)

\* strings.Join
RECURSIVE Join(_, _)
Join(elems, sep) ==
    IF elems = <<>> THEN ""
    ELSE IF Len(elems) = 1 THEN elems[1]
    ELSE elems[1] \o sep \o Join(Tail(elems), sep)

IsSpace(c) == c \in {" ", "\t", "\n", "\r"}

RECURSIVE TrimLeftSpace(_)
TrimLeftSpace(s) ==
    IF s # "" /\ IsSpace(CharAt(s, 1)) THEN TrimLeftSpace(SubSeq(s, 2, Len(s)))
    ELSE s

RECURSIVE TrimRightSpace(_)
TrimRightSpace(s) ==
    IF s # "" /\ IsSpace(CharAt(s, Len(s))) THEN TrimRightSpace(SubSeq(s, 1, Len(s) - 1))
    ELSE s

TrimSpace(s) == TrimRightSpace(TrimLeftSpace(s))

\* ------------------------------------------------------------------------
\* path/filepath package (the server is built for a Unix target)
\* ------------------------------------------------------------------------

Separator == "/"

ToSlash(path) ==
    IF Separator = "/" THEN path ELSE ReplaceAll(path, Separator, "/")

RECURSIVE StripTrailingSeparators(_)
StripTrailingSeparators(path) ==
    IF Len(path) > 0 /\ CharAt(path, Len(path)) = Separator
    THEN StripTrailingSeparators(SubSeq(path, 1, Len(path) - 1))
    ELSE path

\* filepath.Base: the last element of the path.
Base(path) ==
    IF path = "" THEN "."
    ELSE LET p == StripTrailingSeparators(path)
             parts == Split(p, Separator)
         IN IF p = "" THEN Separator ELSE parts[Len(parts)]

\* ------------------------------------------------------------------------
\* sql_to_http.go: the path-to-route compiler
\* ------------------------------------------------------------------------

BaseURL == "/api/v1"

httpMethods == <<"GET", "POST", "PUT", "DELETE">>

\* The first index of parts equal to "Tables", 0 when there is none
\* (Go's tablesIndex + 1; Go's -1 is 0 here).
TablesIndex(parts) ==
    IF \E i \in 1..Len(parts) : parts[i] = "Tables"
    THEN CHOOSE i \in 1..Len(parts) :
            parts[i] = "Tables" /\ \A j \in 1..(i - 1) : parts[j] # "Tables"
    ELSE 0

RouteFromPath(sqlPath, baseURL) ==
    LET normalizedPath == ToSlash(sqlPath)
        parts == Split(normalizedPath, "/")
        tablesIndex == TablesIndex(parts) - 1
    IN IF tablesIndex = -1 \/ tablesIndex + 3 >= Len(parts)
       THEN baseURL \o "/" \o TrimSuffix(Base(sqlPath), ".sql")
       ELSE baseURL \o "/" \o parts[tablesIndex + 2] \o "/"
            \o TrimSuffix(parts[Len(parts)], ".sql")

\* The inner loop of MethodFromPath: the first method equal to upperPart, "" if none.
MatchMethod(upperPart) ==
    IF \E m \in 1..Len(httpMethods) : httpMethods[m] = upperPart
    THEN httpMethods[CHOOSE m \in 1..Len(httpMethods) : httpMethods[m] = upperPart]
    ELSE ""

\* MethodFromParts comparing the part as written, without strings.ToUpper.
RECURSIVE MethodFromPartsCaseSensitive(_, _)
MethodFromPartsCaseSensitive(parts, i) ==
    IF i > Len(parts) THEN ""
    ELSE IF MatchMethod(parts[i]) # "" THEN MatchMethod(parts[i])
    ELSE MethodFromPartsCaseSensitive(parts, i + 1)

\* The outer loop of MethodFromPath from part i on: "" when no part names a method.
RECURSIVE MethodFromParts(_, _)
MethodFromParts(parts, i) ==
    IF i > Len(parts) THEN ""
    ELSE IF MatchMethod(ToUpper(parts[i])) # "" THEN MatchMethod(ToUpper(parts[i]))
    ELSE MethodFromParts(parts, i + 1)

\* The fallback switch of MethodFromPath on the lower-cased file stem.
MethodFromFilename(filename) ==
    IF Contains(filename, "select") \/ Contains(filename, "get")
       \/ Contains(filename, "find") THEN "GET"
    ELSE IF Contains(filename, "insert") \/ Contains(filename, "create")
       \/ Contains(filename, "add") THEN "POST"
    ELSE IF Contains(filename, "update") \/ Contains(filename, "put")
       \/ Contains(filename, "modify") THEN "PUT"
    ELSE IF Contains(filename, "delete") \/ Contains(filename, "remove") THEN "DELETE"
    ELSE "GET"

MethodFromPath(sqlPath) ==
    LET parts == Split(ToSlash(sqlPath), "/")
        fromDir == MethodFromParts(parts, 1)
    IN IF fromDir # "" THEN fromDir
       ELSE MethodFromFilename(TrimSuffix(ToLower(Base(sqlPath)), ".sql"))

\* The loop of ExtractTableName from part i on.
RECURSIVE TableNameFromParts(_, _)
TableNameFromParts(parts, i) ==
    IF i > Len(parts) THEN ""
    ELSE IF parts[i] = "Tables" /\ i + 1 <= Len(parts) THEN parts[i + 1]
    ELSE TableNameFromParts(parts, i + 1)

ExtractTableName(sqlPath) == TableNameFromParts(Split(ToSlash(sqlPath), "/"), 1)

\* Handler is the closure CreateHandler(db, sqlPath): it is identified by the
\* SQL path it captured.
AssembleEndpoint(sqlPath, baseURL) ==
    [Path        |-> RouteFromPath(sqlPath, baseURL),
     Method      |-> MethodFromPath(sqlPath),
     Handler     |-> sqlPath,
     SQLPath     |-> sqlPath,
     TableName   |-> ExtractTableName(sqlPath),
     IsUniversal |-> ~Contains(sqlPath, "Tables/")]

\* ------------------------------------------------------------------------
\* sql_to_http.go: discovery, parameters and templates
\* ------------------------------------------------------------------------

\* The test GlobSQLFiles applies to each file filepath.Walk visits.
IsSQLFileCaseSensitive(path) ==
    HasSuffix(path, ".sql")

IsSQLFile(path) ==
    HasSuffix(ToLower(path), ".sql")

\* GlobSQLFiles on a walk that met no error: the visited files that pass the
\* test, in the order of the walk.
RECURSIVE GlobSQLFiles(_)
GlobSQLFiles(walked) ==
    IF walked = <<>> THEN <<>>
    ELSE IF IsSQLFile(Head(walked)) THEN <<Head(walked)>> \o GlobSQLFiles(Tail(walked))
    ELSE GlobSQLFiles(Tail(walked))

\* A value of the params map: a Go string, or any other decoded JSON value.
StringValue(text) == [kind |-> "string", text |-> text]

NumberValue(text) == [kind |-> "number", text |-> text]

\* r.Body: an empty one, or a JSON object with its fields.
NoBody == [decodes |-> FALSE, fields |-> <<>>, malformed |-> FALSE]

JSONBody(fields) == [decodes |-> TRUE, fields |-> fields, malformed |-> FALSE]

\* A body that is there and is no JSON object, such as `{"name": ` or `[1]`.
MalformedBody == [decodes |-> FALSE, fields |-> <<>>, malformed |-> TRUE]

\* APIRequester._make_request (declared without a body in pygosql.pyi): the
\* keyword arguments go into the query string of a GET request and into the
\* JSON body of a POST, PUT or DELETE request.
MakeRequest(method, kwargs) ==
    IF method = "GET"
        THEN [method |-> method,
              query  |-> [k \in DOMAIN kwargs |-> <<kwargs[k].text>>],
              body   |-> NoBody]
    ELSE [method |-> method, query |-> <<>>, body |-> JSONBody(kwargs)]

\* ExtractRequestParams with the merge turned round: a query parameter wins
\* over a body field of the same name.
ExtractRequestParamsQueryWins(r) ==
    LET queryKeys == {k \in DOMAIN r.query : Len(r.query[k]) > 0}
        bodyKeys == IF r.method \in {"POST", "PUT"} /\ r.body.decodes
                    THEN DOMAIN r.body.fields ELSE {}
    IN [k \in queryKeys \cup bodyKeys |->
           IF k \in queryKeys THEN StringValue(r.query[k][1]) ELSE r.body.fields[k]]

\* ExtractRequestParams: the first value of every query key, then, for POST and
\* PUT, the fields of a body that decodes as a JSON object on top of them. A
\* body that does not decode is ignored; the error returned is always nil.
ExtractRequestParams(r) ==
    LET queryKeys == {k \in DOMAIN r.query : Len(r.query[k]) > 0}
        bodyKeys == IF r.method \in {"POST", "PUT"} /\ r.body.decodes
                    THEN DOMAIN r.body.fields ELSE {}
    IN [k \in queryKeys \cup bodyKeys |->
           IF k \in bodyKeys THEN r.body.fields[k] ELSE StringValue(r.query[k][1])]

\* The type assertion params[key].(string).
IsStringParam(params, key) == key \in DOMAIN params /\ params[key].kind = "string"

\* n positional placeholders joined by ", ".
Placeholders(n) == Join([i \in 1..n |-> "?"], ", ")

\* ProcessSQLTemplate, lines 256-259: the table name, unless it is empty.
ReplaceTable(result, tableName) ==
    IF tableName # "" THEN ReplaceAll(result, "{{table}}", tableName) ELSE result

\* ProcessSQLTemplate, lines 261-268.
ReplaceColumns(result, params) ==
    IF Contains(result, "{{columns}}")
    THEN IF IsStringParam(params, "columns")
         THEN ReplaceAll(result, "{{columns}}", params["columns"].text)
         ELSE ReplaceAll(result, "{{columns}}", "*")
    ELSE result

\* The values replacement with a single placeholder as its fallback.
ReplaceValuesOnePlaceholder(result, params) ==
    IF Contains(result, "{{values}}")
    THEN IF IsStringParam(params, "values")
         THEN ReplaceAll(result, "{{values}}", params["values"].text)
         ELSE ReplaceAll(result, "{{values}}", "?")
    ELSE result

\* ProcessSQLTemplate, lines 270-282.
ReplaceValues(result, params) ==
    IF Contains(result, "{{values}}")
    THEN IF IsStringParam(params, "values")
         THEN ReplaceAll(result, "{{values}}", params["values"].text)
         ELSE ReplaceAll(result, "{{values}}", Placeholders(Cardinality(DOMAIN params)))
    ELSE result

\* The updates replacement without the type assertion: any updates parameter
\* is formatted as text.
ReplaceUpdatesAnyType(result, params) ==
    IF Contains(result, "{{updates}}")
    THEN IF "updates" \in DOMAIN params
         THEN ReplaceAll(result, "{{updates}}", params["updates"].text)
         ELSE ReplaceAll(result, "{{updates}}", "column = ?")
    ELSE result

\* The updates replacement followed by the replacement of a named parameter.
ReplaceUpdatesAndNamed(result, params) ==
    LET replaced == IF Contains(result, "{{updates}}")
                    THEN IF IsStringParam(params, "updates")
                         THEN ReplaceAll(result, "{{updates}}", params["updates"].text)
                         ELSE ReplaceAll(result, "{{updates}}", "column = ?")
                    ELSE result
    IN IF "id" \in DOMAIN params
       THEN ReplaceAll(replaced, "{{id}}", params["id"].text) ELSE replaced

\* ProcessSQLTemplate, lines 284-291.
ReplaceUpdates(result, params) ==
    IF Contains(result, "{{updates}}")
    THEN IF IsStringParam(params, "updates")
         THEN ReplaceAll(result, "{{updates}}", params["updates"].text)
         ELSE ReplaceAll(result, "{{updates}}", "column = ?")
    ELSE result

ProcessSQLTemplate(sqlContent, tableName, params) ==
    ReplaceUpdates(
        ReplaceValues(
            ReplaceColumns(ReplaceTable(sqlContent, tableName), params), params), params)

\* The args slices ExecuteSQLFromPath can build: the values of params in any
\* order, as Go leaves the iteration order of a map unspecified.
ArgOrders(params) ==
    LET n == Cardinality(DOMAIN params)
        orders == {f \in [1..n -> DOMAIN params] : \A i, j \in 1..n : f[i] = f[j] => i = j}
    IN {[i \in 1..n |-> params[f[i]]] : f \in orders}

\* SQLFile.IsEmpty
IsEmpty(content) == TrimSpace(content) = ""

\* main.go, createExampleEndpoints: the route table used when no SQL file is found.
ExampleHandler == "<example>"

createExampleEndpoints(baseURL) ==
    <<[Path        |-> baseURL \o "/example",
       Method      |-> "GET",
       Handler     |-> ExampleHandler,
       SQLPath     |-> "example.sql",
       TableName   |-> "",
       IsUniversal |-> TRUE]>>

\* main.go, RunEndpointTests: every endpoint has its four fields.
EndpointTestsPass(eps) ==
    /\ Len(eps) > 0
    /\ \A i \in 1..Len(eps) :
          eps[i].Path # "" /\ eps[i].Method # "" /\ eps[i].Handler # "" /\ eps[i].SQLPath # ""

\* server.go, setupRoutes: http.ServeMux panics when a pattern is registered twice.
RegistrationPanics(eps) ==
    \/ \E i, j \in 1..Len(eps) : i # j /\ eps[i].Path = eps[j].Path
    \/ \E i \in 1..Len(eps) : eps[i].Path \in {"/health", "/"}

\* ------------------------------------------------------------------------
\* Client: pygosql.pyi declares Route, APIRequester and PyGoSQL without
\* bodies; the operators below follow the declarations and their docstrings.
\* ------------------------------------------------------------------------

\* A Route of the client, made from one endpoint of the server's route table.
RouteOf(ep) ==
    [method       |-> ep.Method,
     path         |-> ep.Path,
     is_universal |-> ep.IsUniversal,
     table_name   |-> ep.TableName]

NoRoute == [method |-> "", path |-> "", is_universal |-> FALSE, table_name |-> ""]

\* Route.operation: "Extract operation name from path" (the final segment).
Operation(route) ==
    LET parts == Split(route.path, "/")
    IN  parts[Len(parts)]

\* Route.namespace: "table_name or 'system' for system routes".
Namespace(route) ==
    IF route.is_universal THEN "system" ELSE route.table_name

\* APIRequester._build_namespaces: a dict of namespaces, each a dict from
\* operation name to the route its callable is bound to; a later route with
\* the same namespace and operation takes the place of an earlier one.
BuildNamespacesOf(routes) ==
    LET names == {Namespace(routes[i]) : i \in DOMAIN routes}
        ops(ns) == {Operation(routes[i]) :
                        i \in {j \in DOMAIN routes : Namespace(routes[j]) = ns}}
        last(ns, op) ==
            CHOOSE i \in DOMAIN routes :
                /\ Namespace(routes[i]) = ns
                /\ Operation(routes[i]) = op
                /\ \A j \in DOMAIN routes :
                       (Namespace(routes[j]) = ns /\ Operation(routes[j]) = op)
                           => j <= i
    IN  [ns \in names |-> [op \in ops(ns) |-> routes[last(ns, op)]]]

AttributeError == "AttributeError"

LookupSilently(spaces, ns, op) ==
    IF ns \in DOMAIN spaces /\ op \in DOMAIN spaces[ns]
        THEN [namespace |-> ns, operation |-> op, error |-> "",
              route |-> spaces[ns][op]]
    ELSE [namespace |-> ns, operation |-> op, error |-> "", route |-> NoRoute]

\* PyGoSQL.__getattr__ / APIRequester.get_namespace, then the attribute of
\* the namespace object: the bound route, or AttributeError.
LookupIn(spaces, ns, op) ==
    IF ns \notin DOMAIN spaces
        THEN [namespace |-> ns, operation |-> op, error |-> AttributeError,
              route |-> NoRoute]
    ELSE IF op \notin DOMAIN spaces[ns]
        THEN [namespace |-> ns, operation |-> op, error |-> AttributeError,
              route |-> NoRoute]
    ELSE [namespace |-> ns, operation |-> op, error |-> "",
          route |-> spaces[ns][op]]


\* ------------------------------------------------------------------------
\* database/database.go: schema preparation and statement classification
\* ------------------------------------------------------------------------

\* \s of Go's regexp syntax.
IsRegexSpace(c) == c \in {"\t", "\n", "\f", "\r", " "}

\* The number of consecutive \s characters of s from 1-based position i on.
RECURSIVE CountRegexSpace(_, _)
CountRegexSpace(s, i) ==
    IF i <= Len(s) /\ IsRegexSpace(CharAt(s, i)) THEN 1 + CountRegexSpace(s, i + 1)
    ELSE 0

\* (?i)CREATE\s+TABLE\s+ matched at 1-based position i of s: the length of the
\* match, 0 when there is none. Both \s+ are greedy and are followed by no
\* alternative that could take a space, so the leftmost-first match is this one.
CreateTableMatchLen(s, i) ==
    LET ws1 == CountRegexSpace(s, i + 6)
        ws2 == CountRegexSpace(s, i + 6 + ws1 + 5)
    IN IF /\ ToUpper(Slice(s, i, i + 5)) = "CREATE"
          /\ ws1 >= 1
          /\ ToUpper(Slice(s, i + 6 + ws1, i + 6 + ws1 + 4)) = "TABLE"
          /\ ws2 >= 1
       THEN 6 + ws1 + 5 + ws2
       ELSE 0

\* regexp.ReplaceAllString from position i on: matches are replaced left to
\* right and do not overlap; the replacement text is not matched again.
RECURSIVE FixCreateTableFrom(_, _)
FixCreateTableFrom(s, i) ==
    IF i > Len(s) THEN ""
    ELSE LET n == CreateTableMatchLen(s, i)
         IN IF n > 0 THEN "CREATE TABLE IF NOT EXISTS " \o FixCreateTableFrom(s, i + n)
            ELSE CharAt(s, i) \o FixCreateTableFrom(s, i + 1)

\* ApplySchema's "Ensure CREATE TABLE statements are idempotent" rewrite.
FixCreateTable(cleanedSchema) == FixCreateTableFrom(cleanedSchema, 1)

\* One line of cleanSQLSchema: the line as kept, "" when it is dropped.
CleanLine(line) ==
    LET trimmed == TrimSpace(line)
        commentIndex == Index(trimmed, "--")
    IN IF trimmed = "" THEN ""
       ELSE IF HasPrefix(trimmed, "--") THEN ""
       ELSE IF commentIndex # -1 THEN TrimSpace(SubSeq(trimmed, 1, commentIndex))
       ELSE trimmed

RECURSIVE CleanLines(_)
CleanLines(lines) ==
    IF lines = <<>> THEN <<>>
    ELSE IF CleanLine(Head(lines)) = "" THEN CleanLines(Tail(lines))
    ELSE <<CleanLine(Head(lines))>> \o CleanLines(Tail(lines))

cleanSQLSchema(schema) == Join(CleanLines(Split(schema, "\n")), "\n")

\* The statements ApplySchema executes for a schema, in order, blank ones skipped
\* at execution time (they are kept here, as strings.Split returns them).
SchemaStatements(schema) == Split(FixCreateTable(cleanSQLSchema(schema)), ";")

\* Values of result columns as database/sql hands them to rows.Scan.
Int64(n) == [type |-> "int64", v |-> n]

Bytes(text) == [type |-> "[]byte", v |-> text]

Text(text) == [type |-> "string", v |-> text]

Null == [type |-> "nil", v |-> ""]

\* The rows d.DB.Query yields: the two rows of the users table for a statement
\* that reads it, one row with one column for any other.
DriverQuery(query) ==
    IF Contains(ToUpper(query), "FROM USERS")
    THEN [columns |-> <<"id", "name">>,
          rows |-> << <<Int64(1), Bytes("al")>>, <<Int64(2), Null>> >>]
    ELSE [columns |-> <<"1">>, rows |-> << <<Int64(1)>> >>]

\* ExecSQL, lines 231-238: a []byte value becomes a string, any other stays.
ScanRow(values) ==
    [i \in DOMAIN values |->
        IF values[i].type = "[]byte" THEN Text(values[i].v) ELSE values[i]]

\* ExecSQL, lines 210-243: the column names as first row, then the data rows.
ScanRows(rows) ==
    [type |-> "[][]interface{}",
     value |-> <<[i \in DOMAIN rows.columns |-> Text(rows.columns[i])]>>
                   \o [j \in DOMAIN rows.rows |-> ScanRow(rows.rows[j])]]

\* ExecSQL's choice between DB.Query and DB.Exec for a trimmed, non-empty query.
ExecSQLUsesQuery(query) ==
    LET queryUpper == ToUpper(TrimSpace(query))
    IN HasPrefix(queryUpper, "SELECT")

\* ------------------------------------------------------------------------
\* State
\* ------------------------------------------------------------------------

VARIABLES
    sqlPath,        \* SpecPath: the SQL file path handed to AssembleEndpoint
    endpoint,       \* SpecPath: the Endpoint it returned, NoEndpoint before the call
    schema,         \* SpecSchema: the schema text handed to ApplySchema
    cleanedSchema,  \* SpecSchema: cleanSQLSchema(schema), Unset before it ran
    fixedSchema,    \* SpecSchema: the text after the CREATE TABLE rewrite
    refixedSchema,  \* SpecSchema: the text after the rewrite ran on fixedSchema
    closed,         \* Database.closed
    muWriter,       \* Database.mu: the goroutine holding Lock, 0 when none
    muReaders,      \* Database.mu: the goroutines holding RLock
    connOpen,       \* the sql.DB of Database.DB has not been closed
    inflight,       \* goroutines inside DB.Query or DB.Exec
    pinging,        \* goroutines inside DB.Ping
    pc,             \* each goroutine's position in the method it called
    call,           \* each goroutine's current call on the Database
    result,         \* what that call returns
    closeReturned,  \* some call of Close has returned
    afterClose,     \* the goroutine's call was invoked after a Close had returned
    mainPc,         \* Spec: main()'s position
    schemaContent,  \* Spec: the text of schema.sql as main() loaded it
    fsFiles,        \* Spec: the files under the SQL root, in filepath.Walk's order
    sqlFiles,       \* Spec: what GlobSQLFiles returned
    endpoints,      \* Spec: main()'s endpoints slice, the route table
    muxPatterns,    \* Spec: the patterns registered with the http.ServeMux
    hpc,            \* Spec: each request goroutine's position in its handler
    req,            \* Spec: the request a goroutine is serving
    resp,           \* Spec: the response it has written
    tmplRequest,    \* SpecTemplate: the request handed to ExtractRequestParams
    tmplParams,     \* SpecTemplate: the params map it returned
    tmplTable,      \* SpecTemplate: the tableName handed to ProcessSQLTemplate
    tmplPieces,     \* SpecTemplate: the tokens and text the SQL file is made of
    tmplResults,    \* SpecTemplate: sqlContent, then result after each replacement
    clientRoutes,   \* SpecClient: the routes the client discovered
    clientNamespaces, \* SpecClient: APIRequester._namespaces
    clientLookup    \* SpecClient: what the last lookup of a namespace and operation gave

pathVars == <<sqlPath, endpoint>>

schemaVars == <<schema, cleanedSchema, fixedSchema, refixedSchema>>

storeVars == <<closed, muWriter, muReaders, connOpen, inflight, pinging, pc, call,
               result, closeReturned, afterClose>>

mainVars == <<mainPc, schemaContent, fsFiles, sqlFiles, endpoints, muxPatterns>>

handlerVars == <<hpc, req, resp>>

templateVars == <<tmplRequest, tmplParams, tmplTable, tmplPieces, tmplResults>>

clientVars == <<clientRoutes, clientNamespaces, clientLookup>>

\* What no method of the Database touches.
nonStoreVars == <<pathVars, schemaVars, mainVars, handlerVars, templateVars, clientVars>>

vars == <<pathVars, schemaVars, storeVars, mainVars, handlerVars, templateVars,
          clientVars>>

NoEndpoint == [Path |-> "", Method |-> "", Handler |-> "", SQLPath |-> "",
               TableName |-> "", IsUniversal |-> FALSE]

\* A text variable that has not been assigned yet.
Unset == "<unset>"

\* ------------------------------------------------------------------------
\* Bounds and inputs of the store model
\* ------------------------------------------------------------------------

\* Goroutines calling the Database concurrently.
NumWorkers == 2

Workers == 1..NumWorkers

\* Database.Path as NewDatabase defaults it.
DbPath == "gosql_dir/gosql.db"

\* Statements handed to ExecSQL.
Queries == {"SELECT * FROM users;", "  select 1 ", "WITH c AS (SELECT 1) SELECT * FROM c",
            "pragma table_info(users)", "INSERT INTO users (name) VALUES (?)", "  \n"}

\* Schema scripts handed to ApplySchema.
Schemas == {"", "-- users\nCREATE TABLE users (id INTEGER);\n\nCREATE TABLE logs (id INTEGER);\n"}

NoCall == [op |-> "", arg |-> "", args |-> <<>>, stmts |-> <<>>, idx |-> 0, via |-> "",
           sent |-> FALSE, log |-> <<>>]

NewCall(op, arg, args) == [NoCall EXCEPT !.op = op, !.arg = arg, !.args = args]

\* A returned (value, error) pair; err = "" is the nil error.
Returned(val, err) == [val |-> val, err |-> err]

NoResult == Returned("", "")

ErrClosed == "database is closed"

PathVarsIdle == sqlPath = "" /\ endpoint = NoEndpoint

SchemaVarsIdle ==
    /\ schema = ""
    /\ cleanedSchema = Unset
    /\ fixedSchema = Unset
    /\ refixedSchema = Unset

\* The Database as NewDatabase builds it, with no call in progress, for the
\* goroutines that will call it.
StoreVarsFor(goroutines) ==
    /\ closed = FALSE
    /\ muWriter = 0
    /\ muReaders = {}
    /\ connOpen = TRUE
    /\ inflight = {}
    /\ pinging = {}
    /\ pc = [w \in goroutines |-> "idle"]
    /\ call = [w \in goroutines |-> NoCall]
    /\ result = [w \in goroutines |-> NoResult]
    /\ closeReturned = FALSE
    /\ afterClose = [w \in goroutines |-> FALSE]

StoreVarsInit == StoreVarsFor(Workers)

MainVarsIdle ==
    /\ mainPc = ""
    /\ schemaContent = ""
    /\ fsFiles = <<>>
    /\ sqlFiles = <<>>
    /\ endpoints = <<>>
    /\ muxPatterns = {}

HandlerVarsIdle == hpc = <<>> /\ req = <<>> /\ resp = <<>>

NotBuilt == [built |-> FALSE, spaces |-> <<>>]

NoLookup == [namespace |-> "", operation |-> "", error |-> "", route |-> NoRoute]

ClientVarsIdle ==
    /\ clientRoutes = <<>>
    /\ clientNamespaces = NotBuilt
    /\ clientLookup = NoLookup

TemplateVarsIdle ==
    /\ tmplRequest = <<>>
    /\ tmplParams = <<>>
    /\ tmplTable = ""
    /\ tmplPieces = <<>>
    /\ tmplResults = <<>>

\* ------------------------------------------------------------------------
\* SpecPath: AssembleEndpoint applied to one SQL file path
\* ------------------------------------------------------------------------

\* Directory names a SQL root can hold.
DirNames == {"db", "Tables", "myTables", "users", "GET", "post"}

\* File names GlobSQLFiles accepts (suffix .sql in any case).
FileNames == {"select.sql", "insert_get.sql", "new_user.sql", "update.sql",
              "drop_all.sql", "remove.sql", "report.SQL", "health_check.sql"}

RECURSIVE JoinPath(_)
JoinPath(segs) ==
    IF Len(segs) = 1 THEN segs[1]
    ELSE segs[1] \o Separator \o JoinPath(Tail(segs))

DirSeqs == UNION {[1..d -> DirNames] : d \in 0..MaxDepth}

\* The file paths of the README's endpoint mapping table.
ReadmePaths ==
    {"tables/users/GET/select.sql", "tables/users/POST/insert.sql",
     "database/GET/health_check.sql"}

PathUniverse == {JoinPath(d \o <<f>>) : d \in DirSeqs, f \in FileNames} \cup ReadmePaths

InitPath ==
    /\ sqlPath \in PathUniverse
    /\ endpoint = NoEndpoint
    /\ SchemaVarsIdle
    /\ StoreVarsInit
    /\ MainVarsIdle
    /\ HandlerVarsIdle
    /\ TemplateVarsIdle
    /\ ClientVarsIdle

Assemble ==
    /\ endpoint = NoEndpoint
    /\ endpoint' = AssembleEndpoint(sqlPath, BaseURL)
    /\ UNCHANGED <<sqlPath, schemaVars, storeVars, mainVars, handlerVars,
                   templateVars, clientVars>>

NextPath == Assemble

SpecPath == InitPath /\ [][NextPath]_vars

\* ------------------------------------------------------------------------
\* SpecSchema: the schema preparation of ApplySchema on one schema text
\* ------------------------------------------------------------------------

\* Most pieces a schema text is made of.
MaxPieces == 3

SchemaPieces == {"CREATE TABLE ", "create  table\n", "IF NOT EXISTS ", "users (id INTEGER);",
                 " -- note\n", "DROP TABLE users;"}

RECURSIVE Concat(_)
Concat(pieces) ==
    IF pieces = <<>> THEN "" ELSE Head(pieces) \o Concat(Tail(pieces))

SchemaTexts == {Concat(ps) : ps \in UNION {[1..n -> SchemaPieces] : n \in 0..MaxPieces}}

InitSchema ==
    /\ schema \in SchemaTexts
    /\ cleanedSchema = Unset
    /\ fixedSchema = Unset
    /\ refixedSchema = Unset
    /\ PathVarsIdle
    /\ StoreVarsInit
    /\ MainVarsIdle
    /\ HandlerVarsIdle
    /\ TemplateVarsIdle
    /\ ClientVarsIdle

\* ApplySchema, line 103: cleanedSchema := cleanSQLSchema(schema).
CleanSchema ==
    /\ cleanedSchema = Unset
    /\ cleanedSchema' = cleanSQLSchema(schema)
    /\ UNCHANGED <<schema, fixedSchema, refixedSchema, pathVars, storeVars, mainVars, handlerVars,
                   templateVars, clientVars>>

\* ApplySchema, line 113: fixedSchema := the CREATE TABLE rewrite of cleanedSchema.
FixSchema ==
    /\ cleanedSchema # Unset
    /\ fixedSchema = Unset
    /\ fixedSchema' = FixCreateTable(cleanedSchema)
    /\ UNCHANGED <<schema, cleanedSchema, refixedSchema, pathVars, storeVars, mainVars, handlerVars,
                   templateVars, clientVars>>

\* The rewrite of line 113 applied to text it has already rewritten.
RefixSchema ==
    /\ fixedSchema # Unset
    /\ refixedSchema = Unset
    /\ refixedSchema' = FixCreateTable(fixedSchema)
    /\ UNCHANGED <<schema, cleanedSchema, fixedSchema, pathVars, storeVars, mainVars, handlerVars,
                   templateVars, clientVars>>

NextSchema == CleanSchema \/ FixSchema \/ RefixSchema

SpecSchema == InitSchema /\ [][NextSchema]_vars

\* ------------------------------------------------------------------------
\* SpecTemplate: ExtractRequestParams, then ProcessSQLTemplate step by step
\* ------------------------------------------------------------------------

\* Tokens and text a SQL file is put together from.
MaxTokens == 2

TemplatePieces == {"SELECT ", " WHERE id = ", "{{id}}", "{{table}}", "{{columns}}",
                   "{{values}}", "{{updates}}"}

TemplatePieceSeqs == UNION {[1..n -> TemplatePieces] : n \in 0..MaxTokens}

\* Table names ExtractTableName can return (a directory name, or none).
TableNames == {"", "users", "{{values}}"}

\* r.URL.Query(): each key with the values given for it.
QueryStrings ==
    { <<>>,
      ("id" :> <<"1", "2">>),
      ("values" :> <<"'a'">>) @@ ("updates" :> <<"{{id}}">>),
      ("columns" :> <<"{{values}}", "id">>) @@ ("id" :> <<"1">>) }

\* r.Body: nothing that decodes as a JSON object, or an object.
Bodies ==
    { NoBody,
      MalformedBody,
      JSONBody(("id" :> NumberValue("7"))),
      JSONBody(("values" :> NumberValue("5")) @@ ("updates" :> NumberValue("5"))),
      JSONBody(("values" :> StringValue("{{updates}}")) @@ ("updates" :> StringValue("n = ?"))) }

\* The methods a route can have and the keyword arguments of a client call.
ClientMethods == {"GET", "POST", "PUT", "DELETE"}

Kwargs ==
    { <<>>,
      "id" :> StringValue("1"),
      ("id" :> StringValue("1")) @@ ("name" :> StringValue("bob")) }

ClientRequests == {MakeRequest(m, kw) : m \in ClientMethods, kw \in Kwargs}

Requests ==
    {[method |-> m, query |-> q, body |-> b] :
        m \in {"GET", "POST", "PUT"}, q \in QueryStrings, b \in Bodies}
    \cup ClientRequests

NoParams == [unset |-> TRUE]

InitTemplate ==
    /\ tmplRequest \in Requests
    /\ tmplParams = NoParams
    /\ tmplTable \in TableNames
    /\ tmplPieces \in TemplatePieceSeqs
    /\ tmplResults = <<>>
    /\ PathVarsIdle
    /\ SchemaVarsIdle
    /\ StoreVarsInit
    /\ MainVarsIdle
    /\ HandlerVarsIdle
    /\ ClientVarsIdle

\* CreateHandler, line 214: params, err := ExtractRequestParams(r).
ExtractParams ==
    /\ tmplParams = NoParams
    /\ tmplParams' = ExtractRequestParams(tmplRequest)
    /\ tmplResults' = <<Concat(tmplPieces)>>
    /\ UNCHANGED <<tmplRequest, tmplTable, tmplPieces>>
    /\ UNCHANGED <<pathVars, schemaVars, storeVars, mainVars, handlerVars, clientVars>>

\* One replacement of ProcessSQLTemplate applied to result.
TemplateStep(n, replaced) ==
    /\ tmplParams # NoParams
    /\ Len(tmplResults) = n
    /\ tmplResults' = Append(tmplResults, replaced)
    /\ UNCHANGED <<tmplRequest, tmplParams, tmplTable, tmplPieces>>
    /\ UNCHANGED <<pathVars, schemaVars, storeVars, mainVars, handlerVars, clientVars>>

SubstituteTable == TemplateStep(1, ReplaceTable(tmplResults[1], tmplTable))

SubstituteColumns == TemplateStep(2, ReplaceColumns(tmplResults[2], tmplParams))

SubstituteValues == TemplateStep(3, ReplaceValues(tmplResults[3], tmplParams))

SubstituteUpdates == TemplateStep(4, ReplaceUpdates(tmplResults[4], tmplParams))

NextTemplate ==
    \/ ExtractParams
    \/ SubstituteTable \/ SubstituteColumns \/ SubstituteValues \/ SubstituteUpdates

SpecTemplate == InitTemplate /\ [][NextTemplate]_vars

\* ------------------------------------------------------------------------
\* SpecClient: the client builds its namespaces from a discovered route list
\* and resolves namespace.operation lookups
\* ------------------------------------------------------------------------

MaxRoutes == 2

\* SQL files under the root, in the order filepath.Walk visits them.
ClientFiles ==
    <<"db/GET/health_check.sql",
      "db/POST/select.sql",
      "db/Tables/orders/GET/select.sql",
      "db/Tables/system/GET/health_check.sql",
      "db/Tables/users/GET/select.sql",
      "db/Tables/users/POST/insert.sql">>

RECURSIVE Ascending(_)
Ascending(S) ==
    IF S = {} THEN <<>>
    ELSE LET m == CHOOSE x \in S : \A y \in S : x <= y
         IN  <<m>> \o Ascending(S \ {m})

\* Route tables of servers that start, as the client discovers them.
RouteLists ==
    LET picks == {S \in SUBSET (DOMAIN ClientFiles) : Cardinality(S) <= MaxRoutes}
        eps(S) == [i \in 1..Cardinality(S) |->
                      AssembleEndpoint(ClientFiles[Ascending(S)[i]], BaseURL)]
    IN  {[i \in DOMAIN eps(S) |-> RouteOf(eps(S)[i])] :
            S \in {T \in picks : ~RegistrationPanics(eps(T))}}

LookupNamespaces == {"system", "users", "orders", "products"}

LookupOperations == {"health_check", "select", "insert", "delete"}

InitClient ==
    /\ clientRoutes \in RouteLists
    /\ clientNamespaces = NotBuilt
    /\ clientLookup = NoLookup
    /\ PathVarsIdle
    /\ SchemaVarsIdle
    /\ StoreVarsInit
    /\ MainVarsIdle
    /\ HandlerVarsIdle
    /\ TemplateVarsIdle

\* APIRequester.__init__ calls _build_namespaces once.
BuildNamespaces ==
    /\ ~clientNamespaces.built
    /\ clientNamespaces' = [built |-> TRUE, spaces |-> BuildNamespacesOf(clientRoutes)]
    /\ UNCHANGED <<clientRoutes, clientLookup>>
    /\ UNCHANGED <<pathVars, schemaVars, storeVars, mainVars, handlerVars, templateVars>>

\* client.<ns>.<op>
Lookup(ns, op) ==
    /\ clientNamespaces.built
    /\ clientLookup' = LookupIn(clientNamespaces.spaces, ns, op)
    /\ UNCHANGED <<clientRoutes, clientNamespaces>>
    /\ UNCHANGED <<pathVars, schemaVars, storeVars, mainVars, handlerVars, templateVars>>

NextClient ==
    \/ BuildNamespaces
    \/ \E ns \in LookupNamespaces, op \in LookupOperations : Lookup(ns, op)

SpecClient == InitClient /\ [][NextClient]_vars

\* ------------------------------------------------------------------------
\* SpecStore: goroutines calling the methods of one Database concurrently
\* ------------------------------------------------------------------------

WriterOps == {"ExecSQL", "ApplySchema", "Close"}

ReaderOps == {"IsHealthy", "GetConnection", "GetPath"}

\* A goroutine calls a method; the method's first statement takes the lock.
BeginCall(w, op, arg, args) ==
    /\ pc[w] = "idle"
    /\ call' = [call EXCEPT ![w] = NewCall(op, arg, args)]
    /\ result' = [result EXCEPT ![w] = NoResult]
    /\ afterClose' = [afterClose EXCEPT ![w] = closeReturned]
    /\ pc' = [pc EXCEPT ![w] = IF op \in WriterOps THEN "lock" ELSE "rlock"]
    /\ UNCHANGED <<closed, muWriter, muReaders, connOpen, inflight, pinging, closeReturned>>

\* A call made by a goroutine that does nothing else.
Invoke(w, op, arg, args) == BeginCall(w, op, arg, args) /\ UNCHANGED nonStoreVars

CallExecSQL(w) == \E query \in Queries : Invoke(w, "ExecSQL", query, <<>>)

CallApplySchema(w) == \E text \in Schemas : Invoke(w, "ApplySchema", text, <<>>)

CallClose(w) == Invoke(w, "Close", "", <<>>)

CallIsHealthy(w) == Invoke(w, "IsHealthy", "", <<>>)

CallGetConnection(w) == Invoke(w, "GetConnection", "", <<>>)

CallGetPath(w) == Invoke(w, "GetPath", "", <<>>)

\* d.mu.Lock() taken as d.mu.RLock(): it waits for a writer only.
LockShared(w) ==
    /\ pc[w] = "lock"
    /\ muWriter = 0
    /\ muReaders' = muReaders \cup {w}
    /\ pc' = [pc EXCEPT ![w] = "locked"]
    /\ UNCHANGED <<closed, muWriter, connOpen, inflight, pinging, call, result,
                   closeReturned, afterClose>>
    /\ UNCHANGED nonStoreVars

\* d.mu.Lock(): waits until no goroutine holds the mutex in either mode.
Lock(w) ==
    /\ pc[w] = "lock"
    /\ muWriter = 0
    /\ muReaders = {}
    /\ muWriter' = w
    /\ pc' = [pc EXCEPT ![w] = "locked"]
    /\ UNCHANGED <<closed, muReaders, connOpen, inflight, pinging, call, result,
                   closeReturned, afterClose>>
    /\ UNCHANGED nonStoreVars

\* d.mu.RLock(): waits until no goroutine holds the write lock.
RLock(w) ==
    /\ pc[w] = "rlock"
    /\ muWriter = 0
    /\ muReaders' = muReaders \cup {w}
    /\ pc' = [pc EXCEPT ![w] = "rlocked"]
    /\ UNCHANGED <<closed, muWriter, connOpen, inflight, pinging, call, result,
                   closeReturned, afterClose>>
    /\ UNCHANGED nonStoreVars

\* A return path of a writer method that leaves the mutex locked.
UnlockForgotten(w) ==
    /\ pc[w] = "unlock"
    /\ muWriter' = muWriter
    /\ pc' = [pc EXCEPT ![w] = "ret"]
    /\ UNCHANGED <<closed, muReaders, connOpen, inflight, pinging, call, result,
                   closeReturned, afterClose>>
    /\ UNCHANGED nonStoreVars

\* The deferred d.mu.Unlock().
Unlock(w) ==
    /\ pc[w] = "unlock"
    /\ muWriter' = 0
    /\ pc' = [pc EXCEPT ![w] = "ret"]
    /\ UNCHANGED <<closed, muReaders, connOpen, inflight, pinging, call, result,
                   closeReturned, afterClose>>
    /\ UNCHANGED nonStoreVars

\* The deferred d.mu.RUnlock().
RUnlock(w) ==
    /\ pc[w] = "runlock"
    /\ muReaders' = muReaders \ {w}
    /\ pc' = [pc EXCEPT ![w] = "ret"]
    /\ UNCHANGED <<closed, muWriter, connOpen, inflight, pinging, call, result,
                   closeReturned, afterClose>>
    /\ UNCHANGED nonStoreVars

\* The method returns to its caller.
Return(w) ==
    /\ pc[w] = "ret"
    /\ pc' = [pc EXCEPT ![w] = "idle"]
    /\ closeReturned' = (closeReturned \/ call[w].op = "Close")
    /\ call' = [call EXCEPT ![w] = NoCall]
    /\ result' = [result EXCEPT ![w] = NoResult]
    /\ afterClose' = [afterClose EXCEPT ![w] = FALSE]
    /\ UNCHANGED <<closed, muWriter, muReaders, connOpen, inflight, pinging>>
    /\ UNCHANGED nonStoreVars

\* The goroutine returns (val, err) from under the write lock.
Leave(w, val, err) ==
    /\ result' = [result EXCEPT ![w] = Returned(val, err)]
    /\ pc' = [pc EXCEPT ![w] = "unlock"]

\* The goroutine returns the scanned rows and a nil error from under the
\* write lock: the value's dynamic type and, next to it, the rows themselves.
LeaveRows(w, scanned) ==
    /\ result' = [result EXCEPT ![w] =
                     [val |-> scanned.type, err |-> "", rows |-> scanned.value]]
    /\ pc' = [pc EXCEPT ![w] = "unlock"]

\* The statement a call is about to hand to the driver: ExecSQL's trimmed
\* query, or the trimmed statement ApplySchema's loop has reached.
StatementOf(c) ==
    IF c.op = "ApplySchema" THEN TrimSpace(c.stmts[c.idx]) ELSE TrimSpace(c.arg)

\* The goroutine hands a statement to DB.Query or DB.Exec; call[w].log keeps
\* the statements the call has handed over so far.
SendStatement(w, via) ==
    /\ inflight' = inflight \cup {w}
    /\ call' = [call EXCEPT ![w].via = via, ![w].sent = TRUE,
                            ![w].log = Append(@, StatementOf(call[w]))]
    /\ pc' = [pc EXCEPT ![w] = "driver"]

\* ExecSQL with the d.closed test left out.
ExecSQLBodyNoClosedCheck(w) ==
    /\ pc[w] = "locked"
    /\ call[w].op = "ExecSQL"
    /\ IF TrimSpace(call[w].arg) = ""
       THEN Leave(w, "nil", "empty query") /\ UNCHANGED <<inflight, call>>
       ELSE /\ SendStatement(w, IF ExecSQLUsesQuery(TrimSpace(call[w].arg))
                                THEN "Query" ELSE "Exec")
            /\ UNCHANGED result
    /\ UNCHANGED <<closed, muWriter, muReaders, connOpen, pinging, closeReturned, afterClose>>
    /\ UNCHANGED nonStoreVars

\* ExecSQL from the closed test to the call of DB.Query or DB.Exec.
ExecSQLBody(w) ==
    /\ pc[w] = "locked"
    /\ call[w].op = "ExecSQL"
    /\ IF closed
       THEN Leave(w, "nil", ErrClosed) /\ UNCHANGED <<inflight, call>>
       ELSE IF TrimSpace(call[w].arg) = ""
       THEN Leave(w, "nil", "empty query") /\ UNCHANGED <<inflight, call>>
       ELSE /\ SendStatement(w, IF ExecSQLUsesQuery(TrimSpace(call[w].arg))
                                THEN "Query" ELSE "Exec")
            /\ UNCHANGED result
    /\ UNCHANGED <<closed, muWriter, muReaders, connOpen, pinging, closeReturned, afterClose>>
    /\ UNCHANGED nonStoreVars

\* DB.Query or DB.Exec returns to ExecSQL, with an error or without.
ExecSQLDriverReturn(w) ==
    /\ pc[w] = "driver"
    /\ call[w].op = "ExecSQL"
    /\ inflight' = inflight \ {w}
    /\ \E ok \in BOOLEAN :
          IF ~ok THEN Leave(w, "nil", "driver error")
          ELSE IF call[w].via = "Query"
          THEN LeaveRows(w, ScanRows(DriverQuery(TrimSpace(call[w].arg))))
          ELSE Leave(w, "result", "")
    /\ UNCHANGED <<closed, muWriter, muReaders, connOpen, pinging, call,
                   closeReturned, afterClose>>
    /\ UNCHANGED nonStoreVars

\* ApplySchema from the closed test to the start of its statement loop.
ApplySchemaBody(w) ==
    /\ pc[w] = "locked"
    /\ call[w].op = "ApplySchema"
    /\ IF closed
       THEN Leave(w, "", ErrClosed) /\ UNCHANGED call
       ELSE IF TrimSpace(call[w].arg) = ""
       THEN Leave(w, "", "") /\ UNCHANGED call
       ELSE /\ call' = [call EXCEPT ![w].stmts = SchemaStatements(call[w].arg),
                                    ![w].idx = 1]
            /\ pc' = [pc EXCEPT ![w] = "stmt"]
            /\ UNCHANGED result
    /\ UNCHANGED <<closed, muWriter, muReaders, connOpen, inflight, pinging,
                   closeReturned, afterClose>>
    /\ UNCHANGED nonStoreVars

\* One turn of ApplySchema's loop: skip a blank statement, or call DB.Exec.
ApplySchemaStatement(w) ==
    /\ pc[w] = "stmt"
    /\ IF call[w].idx > Len(call[w].stmts)
       THEN Leave(w, "", "") /\ UNCHANGED <<inflight, call>>
       ELSE IF TrimSpace(call[w].stmts[call[w].idx]) = ""
       THEN /\ call' = [call EXCEPT ![w].idx = @ + 1]
            /\ UNCHANGED <<inflight, pc, result>>
       ELSE /\ SendStatement(w, "Exec")
            /\ UNCHANGED result
    /\ UNCHANGED <<closed, muWriter, muReaders, connOpen, pinging, closeReturned, afterClose>>
    /\ UNCHANGED nonStoreVars

\* ApplySchema going on to the next statement after DB.Exec has failed.
ApplySchemaDriverReturnKeepGoing(w) ==
    /\ pc[w] = "driver"
    /\ call[w].op = "ApplySchema"
    /\ inflight' = inflight \ {w}
    /\ \E ok \in BOOLEAN :
          /\ call' = [call EXCEPT ![w].idx = @ + 1]
          /\ pc' = [pc EXCEPT ![w] = "stmt"]
          /\ result' = IF ok THEN result
                       ELSE [result EXCEPT ![w] =
                                Returned("", "failed to execute schema statement")]
    /\ UNCHANGED <<closed, muWriter, muReaders, connOpen, pinging, closeReturned, afterClose>>
    /\ UNCHANGED nonStoreVars

\* DB.Exec returns to ApplySchema: the loop goes on, or the error is returned.
ApplySchemaDriverReturn(w) ==
    /\ pc[w] = "driver"
    /\ call[w].op = "ApplySchema"
    /\ inflight' = inflight \ {w}
    /\ \E ok \in BOOLEAN :
          IF ok
          THEN /\ call' = [call EXCEPT ![w].idx = @ + 1]
               /\ pc' = [pc EXCEPT ![w] = "stmt"]
               /\ UNCHANGED result
          ELSE Leave(w, "", "failed to execute schema statement") /\ UNCHANGED call
    /\ UNCHANGED <<closed, muWriter, muReaders, connOpen, pinging, closeReturned, afterClose>>
    /\ UNCHANGED nonStoreVars

\* Close from the closed test to the call of d.DB.Close().
CloseBody(w) ==
    /\ pc[w] = "locked"
    /\ call[w].op = "Close"
    /\ IF closed
       THEN Leave(w, "", "") /\ UNCHANGED <<closed, call>>
       ELSE /\ closed' = TRUE
            /\ call' = [call EXCEPT ![w].sent = TRUE]
            /\ pc' = [pc EXCEPT ![w] = "closing"]
            /\ UNCHANGED result
    /\ UNCHANGED <<muWriter, muReaders, connOpen, inflight, pinging, closeReturned, afterClose>>
    /\ UNCHANGED nonStoreVars

\* d.DB.Close() closes the connection and returns its error, if any.
CloseDriverReturn(w) ==
    /\ pc[w] = "closing"
    /\ connOpen' = FALSE
    /\ \E ok \in BOOLEAN : Leave(w, "", IF ok THEN "" ELSE "driver error")
    /\ UNCHANGED <<closed, muWriter, muReaders, inflight, pinging, call,
                   closeReturned, afterClose>>
    /\ UNCHANGED nonStoreVars

\* The goroutine returns val from under the read lock.
LeaveShared(w, val) ==
    /\ result' = [result EXCEPT ![w] = Returned(val, "")]
    /\ pc' = [pc EXCEPT ![w] = "runlock"]

\* IsHealthy from the closed test to the call of DB.Ping.
IsHealthyBody(w) ==
    /\ pc[w] = "rlocked"
    /\ call[w].op = "IsHealthy"
    /\ IF closed
       THEN LeaveShared(w, "false") /\ UNCHANGED <<pinging, call>>
       ELSE /\ pinging' = pinging \cup {w}
            /\ call' = [call EXCEPT ![w].sent = TRUE]
            /\ pc' = [pc EXCEPT ![w] = "ping"]
            /\ UNCHANGED result
    /\ UNCHANGED <<closed, muWriter, muReaders, connOpen, inflight, closeReturned, afterClose>>
    /\ UNCHANGED nonStoreVars

\* DB.Ping returns: IsHealthy is whether it returned no error.
IsHealthyPingReturn(w) ==
    /\ pc[w] = "ping"
    /\ pinging' = pinging \ {w}
    /\ \E ok \in BOOLEAN : LeaveShared(w, IF ok THEN "true" ELSE "false")
    /\ UNCHANGED <<closed, muWriter, muReaders, connOpen, inflight, call,
                   closeReturned, afterClose>>
    /\ UNCHANGED nonStoreVars

GetConnectionBody(w) ==
    /\ pc[w] = "rlocked"
    /\ call[w].op = "GetConnection"
    /\ LeaveShared(w, IF closed THEN "nil" ELSE "*sql.DB")
    /\ UNCHANGED <<closed, muWriter, muReaders, connOpen, inflight, pinging, call,
                   closeReturned, afterClose>>
    /\ UNCHANGED nonStoreVars

GetPathBody(w) ==
    /\ pc[w] = "rlocked"
    /\ call[w].op = "GetPath"
    /\ LeaveShared(w, DbPath)
    /\ UNCHANGED <<closed, muWriter, muReaders, connOpen, inflight, pinging, call,
                   closeReturned, afterClose>>
    /\ UNCHANGED nonStoreVars

InitStore ==
    /\ PathVarsIdle /\ SchemaVarsIdle /\ StoreVarsInit /\ MainVarsIdle /\ HandlerVarsIdle
    /\ TemplateVarsIdle
    /\ ClientVarsIdle

NextStore ==
    \E w \in Workers :
        \/ CallExecSQL(w) \/ CallApplySchema(w) \/ CallClose(w)
        \/ CallIsHealthy(w) \/ CallGetConnection(w) \/ CallGetPath(w)
        \/ Lock(w) \/ RLock(w) \/ Unlock(w) \/ RUnlock(w) \/ Return(w)
        \/ ExecSQLBody(w) \/ ExecSQLDriverReturn(w)
        \/ ApplySchemaBody(w) \/ ApplySchemaStatement(w) \/ ApplySchemaDriverReturn(w)
        \/ CloseBody(w) \/ CloseDriverReturn(w)
        \/ IsHealthyBody(w) \/ IsHealthyPingReturn(w)
        \/ GetConnectionBody(w) \/ GetPathBody(w)

SpecStore == InitStore /\ [][NextStore]_vars

\* ------------------------------------------------------------------------
\* SpecStoreFair: a finite set of calls, one per goroutine at most, made at
\* once and run to their returns. Every goroutine that can run is scheduled
\* and every driver call returns.
\* ------------------------------------------------------------------------

\* The calls a goroutine can have made: a method with its argument, or none.
ConcurrentCalls ==
    <<NoCall, NewCall("ExecSQL", "SELECT 1", <<>>),
      NewCall("ApplySchema", "a", <<>>),
      NewCall("Close", "", <<>>), NewCall("IsHealthy", "", <<>>),
      NewCall("GetConnection", "", <<>>), NewCall("GetPath", "", <<>>)>>

\* Which goroutine makes which call does not matter to the store: the
\* goroutines are numbered in the order of their calls in ConcurrentCalls.
CallChoices ==
    {f \in [Workers -> DOMAIN ConcurrentCalls] :
        \A w, v \in Workers : w < v => f[w] <= f[v]}

InitStoreFair ==
    /\ closed = FALSE
    /\ muWriter = 0
    /\ muReaders = {}
    /\ connOpen = TRUE
    /\ inflight = {}
    /\ pinging = {}
    /\ \E f \in CallChoices : call = [w \in Workers |-> ConcurrentCalls[f[w]]]
    /\ pc = [w \in Workers |->
                IF call[w] = NoCall THEN "idle"
                ELSE IF call[w].op \in WriterOps THEN "lock" ELSE "rlock"]
    /\ result = [w \in Workers |-> NoResult]
    /\ closeReturned = FALSE
    /\ afterClose = [w \in Workers |-> FALSE]
    /\ PathVarsIdle /\ SchemaVarsIdle /\ MainVarsIdle /\ HandlerVarsIdle
    /\ TemplateVarsIdle
    /\ ClientVarsIdle

\* The steps of goroutine w inside a method of the store.
RunCall(w) ==
    \/ Lock(w) \/ RLock(w) \/ Unlock(w) \/ RUnlock(w) \/ Return(w)
    \/ ExecSQLBody(w) \/ ExecSQLDriverReturn(w)
    \/ ApplySchemaBody(w) \/ ApplySchemaStatement(w) \/ ApplySchemaDriverReturn(w)
    \/ CloseBody(w) \/ CloseDriverReturn(w)
    \/ IsHealthyBody(w) \/ IsHealthyPingReturn(w)
    \/ GetConnectionBody(w) \/ GetPathBody(w)

NextStoreFair == \E w \in Workers : RunCall(w)

SpecStoreFair ==
    InitStoreFair /\ [][NextStoreFair]_vars /\ \A w \in Workers : WF_vars(RunCall(w))

\* ------------------------------------------------------------------------
\* Spec: main() from NewDatabase on, and the request handlers it serves
\* ------------------------------------------------------------------------

\* Request goroutines the HTTP server runs at once.
NumHandlers == 2

Handlers == 1..NumHandlers

\* The goroutine of main().
MainGoroutine == NumHandlers + 1

\* What lies under the SQL root, as filepath.Walk visits it (lexical order).
FsLayouts ==
    { <<>>,
      <<"db/GET/locked.sql", "db/Tables/users/POST/insert.sql">>,
      <<"db/Tables/users/GET/select.sql", "db/Tables/users/POST/select.sql">>,
      <<"db/myTables/GET/list.sql", "db/readme.md">> }

\* The text of a SQL file that can be read and is not empty.
FileText(path) ==
    IF Contains(path, "insert") THEN "INSERT INTO {{table}} (name) VALUES ({{values}})"
    ELSE IF Contains(path, "Tables") THEN "SELECT {{columns}} FROM {{table}};"
    ELSE "SELECT 1;"

\* What os.ReadFile can return for a SQL path at request time: an error, no
\* text, or the file's text. locked.sql is a file the server's user has no
\* permission to read, at startup and ever after.
Unreadable == "<unreadable>"

NeverReadable(path) == Contains(path, "locked")

ReadOutcomes(path) ==
    IF NeverReadable(path) THEN {Unreadable} ELSE {Unreadable, "", FileText(path)}

\* The requests a client sends to a route.
RequestKinds ==
    { [method |-> "GET", query |-> ("id" :> <<"1">>), body |-> NoBody],
      [method |-> "POST", query |-> ("name" :> <<"al">>),
       body |-> JSONBody(("name" :> StringValue("bob")) @@ ("age" :> NumberValue("7")))],
      [method |-> "POST", query |-> <<>>, body |-> MalformedBody],
      [method |-> "OPTIONS", query |-> <<>>, body |-> NoBody] }

NoRequest == [route |-> 0, method |-> "", malformed |-> FALSE, params |-> NoParams,
              loaded |-> FALSE]

NoResponse == [status |-> 0, success |-> FALSE, body |-> "", executed |-> FALSE]

Response(status, success, body, executed) ==
    [status |-> status, success |-> success, body |-> body, executed |-> executed]

StatusOK == 200

StatusBadRequest == 400

StatusInternalServerError == 500

Init ==
    /\ PathVarsIdle
    /\ SchemaVarsIdle
    /\ StoreVarsFor({MainGoroutine} \cup Handlers)
    /\ mainPc = "newdb"
    /\ schemaContent \in Schemas
    /\ fsFiles \in FsLayouts
    /\ sqlFiles = <<>>
    /\ endpoints = <<>>
    /\ muxPatterns = {}
    /\ hpc = [w \in Handlers |-> "idle"]
    /\ req = [w \in Handlers |-> NoRequest]
    /\ resp = [w \in Handlers |-> NoResponse]
    /\ TemplateVarsIdle
    /\ ClientVarsIdle

\* NewDatabase up to the call of ApplySchema: the directory, sql.Open and Ping
\* succeed or one of them fails.
NewDatabaseOpen ==
    /\ mainPc = "newdb"
    /\ \E ok \in BOOLEAN :
          IF ~ok
          THEN /\ mainPc' = "fatal"
               /\ UNCHANGED <<storeVars, schemaContent>>
          ELSE IF schemaContent # ""
          THEN /\ BeginCall(MainGoroutine, "ApplySchema", schemaContent, <<>>)
               /\ mainPc' = "schema"
               /\ schemaContent' = ""
          ELSE /\ mainPc' = "glob"
               /\ UNCHANGED <<storeVars, schemaContent>>
    /\ UNCHANGED <<pathVars, schemaVars, fsFiles, sqlFiles, endpoints, muxPatterns, handlerVars,
                   templateVars, clientVars>>

\* ApplySchema returns to NewDatabase; on an error the connection is closed and
\* main() ends in log.Fatalf.
NewDatabaseReturn ==
    /\ mainPc = "schema"
    /\ pc[MainGoroutine] = "ret"
    /\ pc' = [pc EXCEPT ![MainGoroutine] = "idle"]
    /\ IF result[MainGoroutine].err # ""
       THEN /\ connOpen' = FALSE
            /\ mainPc' = "fatal"
            /\ UNCHANGED <<call, result>>
       ELSE /\ connOpen' = connOpen
            /\ mainPc' = "glob"
            /\ call' = [call EXCEPT ![MainGoroutine] = NoCall]
            /\ result' = [result EXCEPT ![MainGoroutine] = NoResult]
    /\ UNCHANGED <<closed, muWriter, muReaders, inflight, pinging, closeReturned, afterClose>>
    /\ UNCHANGED <<pathVars, schemaVars, schemaContent, fsFiles, sqlFiles, endpoints,
                   muxPatterns, handlerVars,
                   templateVars, clientVars>>

\* main.go, lines 212-217: GlobSQLFiles, fatal when the walk meets an error.
DiscoverSQLFiles ==
    /\ mainPc = "glob"
    /\ \E walkOk \in BOOLEAN :
          IF walkOk
          THEN sqlFiles' = GlobSQLFiles(fsFiles) /\ mainPc' = "assemble"
          ELSE sqlFiles' = sqlFiles /\ mainPc' = "fatal"
    /\ UNCHANGED <<pathVars, schemaVars, storeVars, schemaContent, fsFiles, endpoints,
                   muxPatterns, handlerVars,
                   templateVars, clientVars>>

\* main.go, lines 222-225: one turn of the loop over sqlFiles.
AssembleNext ==
    /\ mainPc = "assemble"
    /\ Len(endpoints) < Len(sqlFiles)
    /\ endpoints' = Append(endpoints, AssembleEndpoint(sqlFiles[Len(endpoints) + 1], BaseURL))
    /\ UNCHANGED <<pathVars, schemaVars, storeVars, mainPc, schemaContent, fsFiles, sqlFiles,
                   muxPatterns, handlerVars,
                   templateVars, clientVars>>

FinishEndpointsNoExample ==
    /\ mainPc = "assemble"
    /\ Len(endpoints) = Len(sqlFiles)
    /\ endpoints' = endpoints
    /\ mainPc' = "server"
    /\ UNCHANGED <<pathVars, schemaVars, storeVars, schemaContent, fsFiles, sqlFiles,
                   muxPatterns, handlerVars,
                   templateVars, clientVars>>

\* main.go, lines 233-237: the loop is over; with no endpoint the example is used.
FinishEndpoints ==
    /\ mainPc = "assemble"
    /\ Len(endpoints) = Len(sqlFiles)
    /\ endpoints' = IF Len(endpoints) = 0 THEN createExampleEndpoints(BaseURL) ELSE endpoints
    /\ mainPc' = "server"
    /\ UNCHANGED <<pathVars, schemaVars, storeVars, schemaContent, fsFiles, sqlFiles,
                   muxPatterns, handlerVars,
                   templateVars, clientVars>>

\* main.go, lines 241-252: the endpoint tests when -test is given, then
\* NewServer, which registers every endpoint's handler under its path.
NewServer ==
    /\ mainPc = "server"
    /\ \E test \in BOOLEAN :
          IF test /\ ~EndpointTestsPass(endpoints)
          THEN mainPc' = "fatal" /\ muxPatterns' = muxPatterns
          ELSE IF RegistrationPanics(endpoints)
          THEN mainPc' = "panic" /\ muxPatterns' = muxPatterns
          ELSE /\ mainPc' = "start"
               /\ muxPatterns' = {endpoints[i].Path : i \in 1..Len(endpoints)}
                                   \cup {"/health", "/"}
    /\ UNCHANGED <<pathVars, schemaVars, storeVars, schemaContent, fsFiles, sqlFiles,
                   endpoints, handlerVars,
                   templateVars, clientVars>>

\* main.go, line 254: srv.Start() listens, or fails and main() ends in log.Fatalf.
StartServer ==
    /\ mainPc = "start"
    /\ \E listening \in BOOLEAN : mainPc' = IF listening THEN "serving" ELSE "fatal"
    /\ UNCHANGED <<pathVars, schemaVars, storeVars, schemaContent, fsFiles, sqlFiles,
                   endpoints, muxPatterns, handlerVars,
                   templateVars, clientVars>>

\* The request of goroutine w as its handler holds it: params is NoParams until
\* ExtractRequestParams has run.
Received(i, r, params) ==
    [route |-> i, method |-> r.method, malformed |-> r.body.malformed, params |-> params,
     loaded |-> FALSE]

\* CreateHandler's closure without its OPTIONS branch.
ServeRequestNoPreflight(w) ==
    /\ mainPc = "serving"
    /\ hpc[w] = "idle"
    /\ \E i \in 1..Len(endpoints), r \in RequestKinds :
          /\ endpoints[i].Path \in muxPatterns
          /\ IF endpoints[i].Handler = ExampleHandler
             THEN /\ req' = [req EXCEPT ![w] = Received(i, r, NoParams)]
                  /\ resp' = [resp EXCEPT ![w] = Response(StatusOK, TRUE, "message", FALSE)]
                  /\ hpc' = [hpc EXCEPT ![w] = "done"]
             ELSE /\ req' = [req EXCEPT ![w] = Received(i, r, ExtractRequestParams(r))]
                  /\ resp' = [resp EXCEPT ![w] = NoResponse]
                  /\ hpc' = [hpc EXCEPT ![w] = "execute"]
    /\ UNCHANGED <<pathVars, schemaVars, storeVars, mainVars,
                   templateVars, clientVars>>

\* A request for the path of endpoints[i] arrives; the mux hands it, whatever
\* its method, to the handler registered under that path. CreateHandler's
\* closure runs up to the call of ExecuteSQLFromPath.
ServeRequest(w) ==
    /\ mainPc = "serving"
    /\ hpc[w] = "idle"
    /\ \E i \in 1..Len(endpoints), r \in RequestKinds :
          /\ endpoints[i].Path \in muxPatterns
          /\ IF endpoints[i].Handler = ExampleHandler
             THEN /\ req' = [req EXCEPT ![w] = Received(i, r, NoParams)]
                  /\ resp' = [resp EXCEPT ![w] = Response(StatusOK, TRUE, "message", FALSE)]
                  /\ hpc' = [hpc EXCEPT ![w] = "done"]
             ELSE IF r.method = "OPTIONS"
             THEN /\ req' = [req EXCEPT ![w] = Received(i, r, NoParams)]
                  /\ resp' = [resp EXCEPT ![w] = Response(StatusOK, FALSE, "", FALSE)]
                  /\ hpc' = [hpc EXCEPT ![w] = "done"]
             ELSE /\ req' = [req EXCEPT ![w] = Received(i, r, ExtractRequestParams(r))]
                  /\ resp' = [resp EXCEPT ![w] = NoResponse]
                  /\ hpc' = [hpc EXCEPT ![w] = "execute"]
    /\ UNCHANGED <<pathVars, schemaVars, storeVars, mainVars,
                   templateVars, clientVars>>

\* ExecuteSQLFromPath up to the call of db.ExecSQL.
ExecuteSQLFromPath(w) ==
    /\ hpc[w] = "execute"
    /\ LET sqlFilePath == endpoints[req[w].route].Handler
       IN \E content \in ReadOutcomes(sqlFilePath) :
             IF content = Unreadable
             THEN /\ resp' = [resp EXCEPT ![w] =
                        Response(StatusInternalServerError, FALSE, "error", FALSE)]
                  /\ hpc' = [hpc EXCEPT ![w] = "done"]
                  /\ UNCHANGED <<req, storeVars>>
             ELSE IF IsEmpty(content)
             THEN /\ resp' = [resp EXCEPT ![w] =
                        Response(StatusInternalServerError, FALSE, "error", FALSE)]
                  /\ hpc' = [hpc EXCEPT ![w] = "done"]
                  /\ req' = [req EXCEPT ![w].loaded = TRUE]
                  /\ UNCHANGED storeVars
             ELSE /\ \E args \in ArgOrders(req[w].params) :
                        BeginCall(w, "ExecSQL",
                                  ProcessSQLTemplate(content, ExtractTableName(sqlFilePath),
                                                     req[w].params),
                                  args)
                  /\ hpc' = [hpc EXCEPT ![w] = "execsql"]
                  /\ req' = [req EXCEPT ![w].loaded = TRUE]
                  /\ UNCHANGED resp
    /\ UNCHANGED <<pathVars, schemaVars, mainVars,
                   templateVars, clientVars>>

\* The handler answering 200 whatever db.ExecSQL returned.
WriteResponseAlwaysOK(w) ==
    /\ hpc[w] = "execsql"
    /\ pc[w] = "ret"
    /\ resp' = [resp EXCEPT ![w] =
          IF result[w].err # ""
          THEN Response(StatusOK, FALSE, "error", call[w].sent)
          ELSE Response(StatusOK, TRUE, "data", call[w].sent)]
    /\ hpc' = [hpc EXCEPT ![w] = "done"]
    /\ pc' = [pc EXCEPT ![w] = "idle"]
    /\ call' = [call EXCEPT ![w] = NoCall]
    /\ result' = [result EXCEPT ![w] = NoResult]
    /\ UNCHANGED <<closed, muWriter, muReaders, connOpen, inflight, pinging, closeReturned,
                   afterClose>>
    /\ UNCHANGED <<pathVars, schemaVars, mainVars, req,
                   templateVars, clientVars>>

\* db.ExecSQL has returned: the handler writes the failure or success envelope.
WriteResponse(w) ==
    /\ hpc[w] = "execsql"
    /\ pc[w] = "ret"
    /\ resp' = [resp EXCEPT ![w] =
          IF result[w].err # ""
          THEN Response(StatusInternalServerError, FALSE, "error", call[w].sent)
          ELSE Response(StatusOK, TRUE, "data", call[w].sent)]
    /\ hpc' = [hpc EXCEPT ![w] = "done"]
    /\ pc' = [pc EXCEPT ![w] = "idle"]
    /\ call' = [call EXCEPT ![w] = NoCall]
    /\ result' = [result EXCEPT ![w] = NoResult]
    /\ UNCHANGED <<closed, muWriter, muReaders, connOpen, inflight, pinging, closeReturned,
                   afterClose>>
    /\ UNCHANGED <<pathVars, schemaVars, mainVars, req,
                   templateVars, clientVars>>

\* The response is on the wire and the goroutine ends.
FinishRequest(w) ==
    /\ hpc[w] = "done"
    /\ hpc' = [hpc EXCEPT ![w] = "idle"]
    /\ req' = [req EXCEPT ![w] = NoRequest]
    /\ resp' = [resp EXCEPT ![w] = NoResponse]
    /\ UNCHANGED <<pathVars, schemaVars, storeVars, mainVars,
                   templateVars, clientVars>>

Next ==
    \/ NewDatabaseOpen \/ NewDatabaseReturn
    \/ DiscoverSQLFiles \/ AssembleNext \/ FinishEndpoints
    \/ NewServer \/ StartServer
    \/ \E w \in {MainGoroutine} \cup Handlers :
          \/ Lock(w) \/ Unlock(w)
          \/ ApplySchemaBody(w) \/ ApplySchemaStatement(w) \/ ApplySchemaDriverReturn(w)
          \/ ExecSQLBody(w) \/ ExecSQLDriverReturn(w)
    \/ \E w \in Handlers :
          ServeRequest(w) \/ ExecuteSQLFromPath(w) \/ WriteResponse(w) \/ FinishRequest(w)

Spec == Init /\ [][Next]_vars

\* ------------------------------------------------------------------------
\* SpecCompile: main() from NewDatabase to srv.Start() over more kinds of
\* files under the SQL root, with no request served
\* ------------------------------------------------------------------------

MaxFiles == 2

\* Files that can lie under the SQL root, in the order filepath.Walk visits them.
CompileFiles ==
    <<"db/GET/list.sql",
      "db/REPORT.SQL",
      "db/notes.sql.bak",
      "db/readme.md",
      "db/schema.sql">>

CompileLayouts ==
    {[i \in 1..Cardinality(S) |-> CompileFiles[Ascending(S)[i]]] :
        S \in {T \in SUBSET (DOMAIN CompileFiles) : Cardinality(T) <= MaxFiles}}

InitCompile ==
    /\ PathVarsIdle
    /\ SchemaVarsIdle
    /\ StoreVarsFor({MainGoroutine} \cup Handlers)
    /\ mainPc = "newdb"
    /\ schemaContent \in Schemas
    /\ fsFiles \in CompileLayouts
    /\ sqlFiles = <<>>
    /\ endpoints = <<>>
    /\ muxPatterns = {}
    /\ hpc = [w \in Handlers |-> "idle"]
    /\ req = [w \in Handlers |-> NoRequest]
    /\ resp = [w \in Handlers |-> NoResponse]
    /\ TemplateVarsIdle
    /\ ClientVarsIdle

NextCompile ==
    \/ NewDatabaseOpen \/ NewDatabaseReturn
    \/ DiscoverSQLFiles \/ AssembleNext \/ FinishEndpoints
    \/ NewServer \/ StartServer
    \/ Lock(MainGoroutine) \/ Unlock(MainGoroutine)
    \/ ApplySchemaBody(MainGoroutine) \/ ApplySchemaStatement(MainGoroutine)
    \/ ApplySchemaDriverReturn(MainGoroutine)

SpecCompile == InitCompile /\ [][NextCompile]_vars

\* ------------------------------------------------------------------------
\* Properties of the path-to-route compiler (SpecPath)
\* ------------------------------------------------------------------------

Assembled == endpoint # NoEndpoint

PathParts == Split(ToSlash(sqlPath), "/")

\* The positions of a segment Tables that is immediately followed by a segment.
TablesPositions == {i \in 1..(Len(PathParts) - 1) : PathParts[i] = "Tables"}

HasTablesSegment == TablesPositions # {}

\* The segment that follows the first Tables segment.
TableOfPath ==
    PathParts[(CHOOSE i \in TablesPositions : \A j \in TablesPositions : i <= j) + 1]

\* The file name without its extension: everything before its last dot.
FileStem(name) ==
    LET dots == {i \in 1..Len(name) : CharAt(name, i) = "."}
    IN IF dots = {} THEN name
       ELSE SubSeq(name, 1, (CHOOSE i \in dots : \A j \in dots : j <= i) - 1)

StemOfPath == FileStem(PathParts[Len(PathParts)])

\* C1: the endpoint compiled from a path with a segment Tables followed by a
\* segment T has TableName = T and IsUniversal = FALSE; the endpoint compiled
\* from any other path has IsUniversal = TRUE and an empty TableName.
C1_TableScopeFromSegment ==
    Assembled =>
        IF HasTablesSegment
        THEN endpoint.TableName = TableOfPath /\ ~endpoint.IsUniversal
        ELSE endpoint.IsUniversal /\ endpoint.TableName = ""

\* C2: the route of a table-scoped file is {baseURL}/{T}/{stem}, the route of a
\* universal file is {baseURL}/{stem}, and the route is table-prefixed exactly
\* when the endpoint's TableName is non-empty.
C2_RoutePathShape ==
    Assembled =>
        /\ endpoint.Path =
              IF HasTablesSegment
              THEN BaseURL \o "/" \o TableOfPath \o "/" \o StemOfPath
              ELSE BaseURL \o "/" \o StemOfPath
        /\ (endpoint.TableName # "") <=>
              (endpoint.Path = BaseURL \o "/" \o endpoint.TableName \o "/" \o StemOfPath)

EqualFold(a, b) == ToLower(a) = ToLower(b)

IsMethodSegment(seg) == \E m \in {"GET", "POST", "PUT", "DELETE"} : EqualFold(seg, m)

MethodSegmentPositions == {i \in 1..Len(PathParts) : IsMethodSegment(PathParts[i])}

\* C3: when some segment of the path names GET, POST, PUT or DELETE in any
\* letter case, the endpoint's method is the one named by the first such
\* segment, whatever the file name says.
C3_MethodFromDirectorySegment ==
    (Assembled /\ MethodSegmentPositions # {}) =>
        \E i \in MethodSegmentPositions :
            /\ \A j \in MethodSegmentPositions : i <= j
            /\ EqualFold(PathParts[i], endpoint.Method)
            /\ endpoint.Method \in {"GET", "POST", "PUT", "DELETE"}

\* C3 witness: a lower-case post directory above a file named select.
C3_Witness ==
    /\ sqlPath = "Tables/users/post/select.sql"
    /\ endpoint.Method = "POST"

ContainsAny(s, words) == \E w \in words : Contains(s, w)

\* The vocabularies of the method inference, first match winning.
VocabularyMethod(stem) ==
    IF ContainsAny(stem, {"select", "get", "find", "read", "list"}) THEN "GET"
    ELSE IF ContainsAny(stem, {"insert", "create", "add", "new"}) THEN "POST"
    ELSE IF ContainsAny(stem, {"update", "upsert", "modify", "edit", "put"}) THEN "PUT"
    ELSE IF ContainsAny(stem, {"delete", "remove", "drop", "destroy"}) THEN "DELETE"
    ELSE "GET"

\* C4: for a path with no method-named segment the method is inferred from the
\* file stem: select|get|find|read|list is GET, insert|create|add|new is POST,
\* update|upsert|modify|edit|put is PUT, delete|remove|drop|destroy is DELETE,
\* in that order, and GET when nothing matches.
C4_MethodFromStemVocabulary ==
    (Assembled /\ MethodSegmentPositions = {}) =>
        endpoint.Method = VocabularyMethod(ToLower(StemOfPath))

\* ------------------------------------------------------------------------
\* Properties of the route table and of the request handlers
\* ------------------------------------------------------------------------

\* The route table is complete and is handed to NewServer, or is being served.
RouteTableBuilt == mainPc \in {"server", "start", "serving", "panic"}

\* C5: every endpoint of the route table the server is started with is
\* universal exactly when its table name is empty.
C5_UniversalIffNoTableName ==
    RouteTableBuilt =>
        \A i \in 1..Len(endpoints) :
            endpoints[i].IsUniversal = (endpoints[i].TableName = "")

StatusMethodNotAllowed == 405

\* The request of goroutine w has its response, and its method is neither
\* OPTIONS nor the method its route was compiled for.
AnsweredMethodMismatch(w) ==
    /\ hpc[w] = "done"
    /\ endpoints[req[w].route].Handler # ExampleHandler
    /\ req[w].method \notin {"OPTIONS", endpoints[req[w].route].Method}

\* C6: a request whose method differs from its route's method is answered
\* with a 405 failure envelope, and its SQL is neither loaded nor executed.
C6_MethodMismatchRejected ==
    \A w \in Handlers :
        AnsweredMethodMismatch(w) =>
            /\ resp[w].status = StatusMethodNotAllowed
            /\ ~resp[w].success
            /\ ~req[w].loaded
            /\ ~resp[w].executed

\* The trimmed, non-blank statements among the first k of stmts, in order.
RECURSIVE NonBlankStatements(_, _)
NonBlankStatements(stmts, k) ==
    IF k = 0 THEN <<>>
    ELSE LET before == NonBlankStatements(stmts, k - 1)
         IN IF TrimSpace(stmts[k]) = "" THEN before
            ELSE Append(before, TrimSpace(stmts[k]))

\* main()'s call of ApplySchema, while it runs and after it has failed.
SchemaCall == call[MainGoroutine]

ApplyingSchema == SchemaCall.op = "ApplySchema" /\ SchemaCall.idx >= 1

SchemaFailed == ApplyingSchema /\ result[MainGoroutine].err # ""

\* How far into stmts the statements handed to DB.Exec reach.
SchemaProgress ==
    IF pc[MainGoroutine] = "driver" \/ SchemaFailed
    THEN SchemaCall.idx ELSE SchemaCall.idx - 1

\* C11: ApplySchema hands the non-empty statements of the split schema to the
\* connection one at a time in source order; once a statement has failed no
\* later statement is handed over, the error is returned, the connection is
\* closed and main() ends without a server.
C11_SchemaFailureAbortsStartup ==
    /\ ApplyingSchema =>
          /\ SchemaCall.stmts = SchemaStatements(SchemaCall.arg)
          /\ SchemaCall.log = NonBlankStatements(SchemaCall.stmts, SchemaProgress)
          /\ inflight \subseteq {MainGoroutine}
    /\ SchemaFailed =>
          /\ pc[MainGoroutine] \in {"unlock", "ret", "idle"}
          /\ inflight = {}
          /\ mainPc \in {"schema", "fatal"}
          /\ pc[MainGoroutine] = "idle" => mainPc = "fatal" /\ ~connOpen
          /\ muxPatterns = {}
          /\ \A w \in Handlers : hpc[w] = "idle"

\* The first of two statements has failed and main() has ended.
C11_Witness ==
    /\ SchemaFailed
    /\ mainPc = "fatal"
    /\ ~connOpen
    /\ Len(SchemaCall.log) = 1
    /\ Len(NonBlankStatements(SchemaCall.stmts, Len(SchemaCall.stmts))) = 2

\* Goroutine w serves a request for a route compiled from a SQL file.
ServesCompiledRoute(w) ==
    hpc[w] # "idle" /\ endpoints[req[w].route].Handler # ExampleHandler

\* C18: an OPTIONS request to a compiled route is answered at once with
\* status 200 and no body; its parameters are not extracted, its SQL file is
\* not loaded and nothing is executed for it, whoever holds the store.
C18_OptionsShortCircuits ==
    \A w \in Handlers :
        ServesCompiledRoute(w) /\ req[w].method = "OPTIONS" =>
            /\ hpc[w] = "done"
            /\ resp[w].status = StatusOK
            /\ resp[w].body = ""
            /\ req[w].params = NoParams
            /\ ~req[w].loaded
            /\ ~resp[w].executed
            /\ pc[w] = "idle"
            /\ call[w] = NoCall

\* An OPTIONS request is answered while another request's statement is in
\* flight under the store's lock.
C18_Witness ==
    \E w, v \in Handlers :
        /\ ServesCompiledRoute(w)
        /\ req[w].method = "OPTIONS"
        /\ resp[w].status = StatusOK
        /\ muWriter = v
        /\ v \in inflight

\* C19: a request with malformed input is answered with status 400 and a
\* failure envelope and nothing is executed for it; a request whose statement
\* fails in the store is answered with status 500.
C19_StatusReflectsCause ==
    \A w \in Handlers :
        hpc[w] = "done" /\ ServesCompiledRoute(w) =>
            /\ req[w].malformed =>
                  /\ resp[w].status = StatusBadRequest
                  /\ ~resp[w].success
                  /\ ~resp[w].executed
            /\ (~req[w].malformed /\ resp[w].executed /\ ~resp[w].success) =>
                  resp[w].status = StatusInternalServerError

\* Two endpoints of the route table have the same path.
RoutesCollide ==
    \E i, j \in 1..Len(endpoints) : i < j /\ endpoints[i].Path = endpoints[j].Path

\* C20: when two endpoints collide on a path, registering the route table does
\* not abort startup, and a request for the path goes to the later endpoint.
C20_CollisionShadowsSilently ==
    /\ mainPc # "panic"
    /\ \A w \in Handlers :
          hpc[w] # "idle" =>
              \A j \in 1..Len(endpoints) :
                  endpoints[j].Path = endpoints[req[w].route].Path => j <= req[w].route

\* ------------------------------------------------------------------------
\* Properties of parameter extraction and of template substitution
\* ------------------------------------------------------------------------

RecognizedPlaceholders == {"{{table}}", "{{columns}}", "{{values}}", "{{updates}}"}

\* ProcessSQLTemplate has returned.
Rendered == Len(tmplResults) = 5

Template == tmplResults[1]

Output == tmplResults[5]

\* The pieces of the SQL file, each one changed by f.
MapPieces(f(_)) == Concat([i \in 1..Len(tmplPieces) |-> f(tmplPieces[i])])

\* What ProcessSQLTemplate makes of a recognized placeholder standing alone;
\* any other piece as it is.
OnlyRecognizedChanged(piece) ==
    IF piece \in RecognizedPlaceholders
    THEN ProcessSQLTemplate(piece, tmplTable, tmplParams) ELSE piece

InsertedText(piece) ==
    IF piece = "{{table}}" THEN (IF tmplTable # "" THEN tmplTable ELSE piece)
    ELSE IF piece = "{{columns}}"
         THEN (IF IsStringParam(tmplParams, "columns") THEN tmplParams["columns"].text ELSE "*")
    ELSE IF piece = "{{values}}"
         THEN (IF IsStringParam(tmplParams, "values") THEN tmplParams["values"].text
               ELSE Placeholders(Cardinality(DOMAIN tmplParams)))
    ELSE IF piece = "{{updates}}"
         THEN (IF IsStringParam(tmplParams, "updates") THEN tmplParams["updates"].text
               ELSE "column = ?")
    ELSE piece

\* C13: text inserted for a placeholder appears verbatim in the output, also
\* when it contains a recognized placeholder itself.
C13_SubstitutedTextNotRescanned ==
    Rendered => Output = MapPieces(InsertedText)

\* The name between the braces of a token, "" for a piece that is no token.
TokenName(piece) ==
    IF HasPrefix(piece, "{{") /\ HasSuffix(piece, "}}")
    THEN Slice(piece, 3, Len(piece) - 2) ELSE ""

\* The README's replacement: a token whose name is a parameter becomes the
\* parameter's value as text, any other piece stays.
NamedParameterText(piece) ==
    IF TokenName(piece) \in DOMAIN tmplParams
    THEN tmplParams[TokenName(piece)].text ELSE piece

\* C14: every {{name}} token whose name is a key of the request's parameters
\* is replaced by that parameter's value; a token without one is left as-is.
C14_NamedTokensReplaced ==
    Rendered => Output = MapPieces(NamedParameterText)

\* ProcessSQLTemplate has gone through its values replacement.
ValuesReplaced == Len(tmplResults) >= 4

\* ProcessSQLTemplate has gone through its updates replacement.
UpdatesReplaced == Len(tmplResults) >= 5

\* text with every occurrence of token replaced by inserted.
EveryOccurrenceReplaced(text, token, inserted) == Join(Split(text, token), inserted)

ParamsExtracted == tmplParams # NoParams

\* The request carries a JSON object that ExtractRequestParams reads.
BodyMerged == tmplRequest.method \in {"POST", "PUT"} /\ tmplRequest.body.decodes

\* C17: every query key maps to its first value unless a merged body has the
\* key; for POST and PUT every field of a JSON object body maps to the body's
\* value; the parameter set has no other key.
C17_BodyOverridesQuery ==
    ParamsExtracted =>
        /\ \A k \in DOMAIN tmplRequest.query :
              (~BodyMerged \/ k \notin DOMAIN tmplRequest.body.fields)
                  => /\ k \in DOMAIN tmplParams
                     /\ tmplParams[k] = [kind |-> "string", text |-> Head(tmplRequest.query[k])]
        /\ BodyMerged =>
              \A k \in DOMAIN tmplRequest.body.fields :
                  k \in DOMAIN tmplParams /\ tmplParams[k] = tmplRequest.body.fields[k]
        /\ DOMAIN tmplParams =
              DOMAIN tmplRequest.query
                  \cup (IF BodyMerged THEN DOMAIN tmplRequest.body.fields ELSE {})

\* A POST whose body and query both give `values`, with another query key
\* that the body does not have.
C17_Witness ==
    /\ ParamsExtracted
    /\ tmplRequest.method = "POST"
    /\ \E k \in DOMAIN tmplRequest.query \cap DOMAIN tmplParams :
          /\ BodyMerged
          /\ k \in DOMAIN tmplRequest.body.fields
          /\ tmplParams[k] # [kind |-> "string", text |-> Head(tmplRequest.query[k])]
    /\ \E k \in DOMAIN tmplRequest.query :
          /\ k \notin DOMAIN tmplRequest.body.fields
          /\ Len(tmplRequest.query[k]) = 2

\* ------------------------------------------------------------------------
\* Properties of the store (SpecStore)
\* ------------------------------------------------------------------------

\* A statement begins, after trimming and in any letter case, with one of the
\* four reading keywords.
BeginsWithReadKeyword(query) ==
    \E keyword \in {"SELECT", "WITH", "EXPLAIN", "PRAGMA"} :
        HasPrefix(ToUpper(TrimSpace(query)), keyword)

\* C7: ExecSQL executes a statement with Query exactly when the trimmed
\* statement begins, case-insensitively, with SELECT, WITH, EXPLAIN or PRAGMA;
\* every other non-empty statement is executed as a mutation with Exec.
C7_QueryIffReadKeyword ==
    \A w \in Workers :
        (pc[w] = "driver" /\ call[w].op = "ExecSQL") =>
            /\ call[w].via \in {"Query", "Exec"}
            /\ (call[w].via = "Query") <=> BeginsWithReadKeyword(call[w].arg)

\* The goroutine is between taking and releasing the lock in a locking method.
InCriticalSection(w) ==
    /\ call[w].op \in WriterOps
    /\ pc[w] \in {"locked", "stmt", "driver", "closing", "unlock"}

\* C8: at most one statement is in flight at any time, the critical sections of
\* ExecSQL, ApplySchema and Close never overlap, and Close never runs while a
\* statement is in flight.
C8_OneStatementAtATime ==
    /\ Cardinality(inflight) <= 1
    /\ \A w, v \in Workers : (InCriticalSection(w) /\ InCriticalSection(v)) => w = v
    /\ \A w \in Workers :
          (call[w].op = "Close" /\ InCriticalSection(w)) => inflight = {}

\* C8 witness: one goroutine has a statement in flight while another, which
\* called ExecSQL or ApplySchema or Close, waits for the lock.
C8_Witness ==
    \E w, v \in Workers :
        /\ w # v
        /\ w \in inflight
        /\ pc[v] = "lock"
        /\ call[v].op \in WriterOps

\* The call of goroutine w was invoked after a Close had returned and is about
\* to return.
ReturnsAfterClose(w) == pc[w] = "ret" /\ afterClose[w]

\* C9 as stated: closed is terminal, and every operation invoked after Close
\* has returned fails with the store-closed error and sends nothing to the
\* connection.
C9_EveryOperationFailsClosed ==
    /\ closeReturned => closed
    /\ \A w \in Workers :
          ReturnsAfterClose(w) => (result[w].err = ErrClosed /\ ~call[w].sent)

\* C9 as amended: closed is terminal; after Close has returned, ExecSQL and
\* ApplySchema fail with the store-closed error, IsHealthy returns false,
\* GetConnection returns nil, Close returns nil again and GetPath still returns
\* the path; none of them sends anything to the connection.
C9_ClosedIsTerminal ==
    /\ closeReturned => (closed /\ ~connOpen)
    /\ \A w \in Workers :
          ReturnsAfterClose(w) =>
              /\ ~call[w].sent
              /\ call[w].op \in {"ExecSQL", "ApplySchema"} => result[w].err = ErrClosed
              /\ call[w].op = "IsHealthy" => result[w] = Returned("false", "")
              /\ call[w].op = "GetConnection" => result[w] = Returned("nil", "")
              /\ call[w].op = "Close" => result[w] = Returned("", "")
              /\ call[w].op = "GetPath" => result[w] = Returned(DbPath, "")

\* C9 witness: an ExecSQL invoked after Close returned comes back with the
\* store-closed error.
C9_Witness ==
    \E w \in Workers :
        /\ ReturnsAfterClose(w)
        /\ call[w].op = "ExecSQL"
        /\ result[w].err = ErrClosed

\* ExecSQL has come back from d.DB.Query without an error.
QueryReturned(w) ==
    /\ call[w].op = "ExecSQL"
    /\ call[w].via = "Query"
    /\ pc[w] \in {"unlock", "ret"}
    /\ result[w].err = ""

\* The QueryResult of a result set: its column names in order, one
\* name-to-value mapping per row, and the number of rows.
QueryResult(rows) ==
    [val |-> "map[string]interface{}",
     err |-> "",
     columns |-> rows.columns,
     rows |-> [j \in DOMAIN rows.rows |->
                  [name \in {rows.columns[i] : i \in DOMAIN rows.columns} |->
                      LET i == CHOOSE i \in DOMAIN rows.columns : rows.columns[i] = name
                          cell == rows.rows[j][i]
                      IN IF cell.type = "[]byte" THEN [type |-> "string", v |-> cell.v]
                         ELSE cell]],
     count |-> Len(rows.rows)]

\* C21: a read statement returns the QueryResult {columns, rows, count} of the
\* rows the connection yields for it.
C21_QueryResultShape ==
    \A w \in DOMAIN pc :
        QueryReturned(w) =>
            result[w] = QueryResult(DriverQuery(TrimSpace(call[w].arg)))

\* ------------------------------------------------------------------------
\* Properties of the schema preparation (SpecSchema)
\* ------------------------------------------------------------------------

\* C10: the CREATE TABLE rewrite is idempotent: applied to text it has already
\* rewritten it yields that text again.
C10_FixCreateTableIdempotent ==
    refixedSchema # Unset => refixedSchema = fixedSchema


\* ------------------------------------------------------------------------
\* Properties of the client (SpecClient)
\* ------------------------------------------------------------------------

\* The namespace the route belongs to: its table, or `system` when universal.
NamespaceFor(route) ==
    IF route.is_universal THEN "system" ELSE route.table_name

\* op is the final segment of the route's path.
IsFinalSegment(op, route) ==
    /\ ~Contains(op, "/")
    /\ HasSuffix(route.path, "/" \o op)

\* The route is what client.<ns>.<op> is bound to.
BoundAt(ns, op, route) ==
    /\ ns \in DOMAIN clientNamespaces.spaces
    /\ op \in DOMAIN clientNamespaces.spaces[ns]
    /\ clientNamespaces.spaces[ns][op] = route

Discovered(ns, op) ==
    \E i \in DOMAIN clientRoutes :
        NamespaceFor(clientRoutes[i]) = ns /\ IsFinalSegment(op, clientRoutes[i])

\* Two discovered routes with the same namespace and the same operation name.
SharesName(i) ==
    \E j \in DOMAIN clientRoutes :
        /\ j # i
        /\ NamespaceFor(clientRoutes[j]) = NamespaceFor(clientRoutes[i])
        /\ \E op \in LookupOperations :
               IsFinalSegment(op, clientRoutes[i]) /\ IsFinalSegment(op, clientRoutes[j])

LookedUp == clientLookup.namespace # ""

LookupFailsLoudlyIffUndiscovered ==
    LookedUp =>
        IF Discovered(clientLookup.namespace, clientLookup.operation)
            THEN /\ clientLookup.error = ""
                 /\ \E i \in DOMAIN clientRoutes :
                        /\ clientLookup.route = clientRoutes[i]
                        /\ NamespaceFor(clientRoutes[i]) = clientLookup.namespace
                        /\ IsFinalSegment(clientLookup.operation, clientRoutes[i])
            ELSE /\ clientLookup.error = AttributeError
                 /\ clientLookup.route = NoRoute

\* C22 (as stated): once the namespaces are built, every discovered route is
\* bound in exactly one namespace (its table's, or `system` when universal)
\* under the name of its final path segment, and a lookup of an undiscovered
\* namespace or operation fails with a not-found error.
C22_EveryRouteReachable ==
    /\ clientNamespaces.built =>
           \A i \in DOMAIN clientRoutes :
               \E op \in LookupOperations :
                   /\ IsFinalSegment(op, clientRoutes[i])
                   /\ \A ns \in LookupNamespaces :
                          BoundAt(ns, op, clientRoutes[i])
                              <=> ns = NamespaceFor(clientRoutes[i])
    /\ LookupFailsLoudlyIffUndiscovered

\* C22 (amended): every bound callable is a discovered route, bound only in
\* its own namespace under the name of its final path segment; every
\* discovered route that shares its namespace and operation name with no
\* other route is bound so; and a lookup fails with a not-found error exactly
\* when no discovered route has that namespace and operation.
C22_NamespacesPartitionRoutes ==
    /\ clientNamespaces.built =>
           /\ \A ns \in DOMAIN clientNamespaces.spaces :
                  \A op \in DOMAIN clientNamespaces.spaces[ns] :
                      \E i \in DOMAIN clientRoutes :
                          /\ clientNamespaces.spaces[ns][op] = clientRoutes[i]
                          /\ ns = NamespaceFor(clientRoutes[i])
                          /\ IsFinalSegment(op, clientRoutes[i])
           /\ \A i \in DOMAIN clientRoutes :
                  ~SharesName(i) =>
                      \E op \in LookupOperations :
                          /\ IsFinalSegment(op, clientRoutes[i])
                          /\ \A ns \in LookupNamespaces :
                                 BoundAt(ns, op, clientRoutes[i])
                                     <=> ns = NamespaceFor(clientRoutes[i])
    /\ LookupFailsLoudlyIffUndiscovered

\* A universal and a table-scoped route are bound, and a lookup of an
\* operation that was not discovered in `system` has failed.
C22_Witness ==
    /\ clientNamespaces.built
    /\ \E i, j \in DOMAIN clientRoutes :
           /\ clientRoutes[i].is_universal
           /\ ~clientRoutes[j].is_universal
           /\ BoundAt("system", "health_check", clientRoutes[i])
           /\ BoundAt(clientRoutes[j].table_name, "select", clientRoutes[j])
    /\ clientLookup.namespace = "system"
    /\ clientLookup.operation = "insert"
    /\ clientLookup.error = AttributeError

\* ------------------------------------------------------------------------
\* Properties of discovery and of the handlers' envelopes (Spec)
\* ------------------------------------------------------------------------

\* C23: a SQL file that cannot be read is skipped when the route table is
\* compiled: the table the server is started with has no route for it.
C23_UnreadableFileHasNoRoute ==
    RouteTableBuilt =>
        \A i \in 1..Len(endpoints) : ~NeverReadable(endpoints[i].SQLPath)

\* ------------------------------------------------------------------------
\* Properties of the README's endpoint mapping (SpecPath)
\* ------------------------------------------------------------------------

\* C25: the README's rows: tables/users/GET/select.sql is the table-scoped
\* GET /api/v1/users/select of table users, and
\* database/GET/health_check.sql is the universal GET /api/v1/health_check.
C25_ReadmeMapping ==
    /\ (Assembled /\ sqlPath = "tables/users/GET/select.sql") =>
           /\ endpoint.Method = "GET"
           /\ endpoint.Path = "/api/v1/users/select"
           /\ endpoint.TableName = "users"
           /\ ~endpoint.IsUniversal
    /\ (Assembled /\ sqlPath = "database/GET/health_check.sql") =>
           /\ endpoint.Method = "GET"
           /\ endpoint.Path = "/api/v1/health_check"
           /\ endpoint.TableName = ""
           /\ endpoint.IsUniversal

\* ------------------------------------------------------------------------
\* Properties of discovery (SpecCompile)
\* ------------------------------------------------------------------------

FilesUnderRoot == {fsFiles[i] : i \in 1..Len(fsFiles)}

RoutesFrom(f) == {i \in 1..Len(endpoints) : endpoints[i].SQLPath = f}

FromAFile(i) == endpoints[i].Handler # ExampleHandler

Answered(w) ==
    /\ hpc[w] = "done"
    /\ req[w].method # "OPTIONS"
    /\ endpoints[req[w].route].Handler # ExampleHandler

SuccessEnvelope(r) == r.success /\ r.body = "data" /\ r.status = StatusOK

FailureEnvelope(r) == ~r.success /\ r.body = "error" /\ r.status \notin {0, StatusOK}

\* The answer is one of the two envelopes, and the success envelope is only
\* written after the file was loaded and its statement executed.
EnvelopeWritten ==
    \A w \in Handlers :
        Answered(w) =>
            /\ SuccessEnvelope(resp[w]) \/ FailureEnvelope(resp[w])
            /\ SuccessEnvelope(resp[w]) => (req[w].loaded /\ resp[w].executed)

\* One step of a handler, of the store or of main().
EnvelopeStep ==
    /\ \A w \in Handlers :
           \* the file cannot be loaded or is empty: failure
           /\ (hpc[w] = "execute" /\ hpc'[w] = "done") => FailureEnvelope(resp'[w])
           \* the store has returned: success exactly when it returned no error
           /\ (hpc[w] = "execsql" /\ hpc'[w] = "done") =>
                  /\ result[w].err = "" => SuccessEnvelope(resp'[w])
                  /\ result[w].err # "" => FailureEnvelope(resp'[w])
           \* an envelope once written is not written again
           /\ resp[w] # NoResponse => resp'[w] \in {resp[w], NoResponse}
    \* the server keeps serving the same route table
    /\ mainPc = "serving" =>
           /\ mainPc' = "serving"
           /\ endpoints' = endpoints
           /\ muxPatterns' = muxPatterns

\* C26: every request other than OPTIONS to a compiled route is answered
\* with exactly one envelope: success and data with status 200 exactly when
\* the file was loaded, rendered and executed without error, else
\* success:false and error with another status; whatever the outcome the
\* server goes on serving the same route table.
C26_OneEnvelopePerRequest == []EnvelopeWritten /\ [][EnvelopeStep]_vars

\* While the server serves, one request has failed on an empty SQL file and
\* another has succeeded.
C26_Witness ==
    /\ mainPc = "serving"
    /\ \E w, v \in Handlers :
           /\ Answered(w) /\ FailureEnvelope(resp[w])
           /\ req[w].loaded /\ ~resp[w].executed
           /\ Answered(v) /\ SuccessEnvelope(resp[v])

\* Goroutine w is inside db.ExecSQL for its request.
Executing(w) == hpc[w] = "execsql" /\ call[w].op = "ExecSQL"

\* C27: the positional arguments bound for a request with two or more
\* parameters are the same every time the request is served.
C27_ArgsOrderFixed ==
    \A w, v \in Handlers :
        (/\ Executing(w) /\ Executing(v)
         /\ req[w].route = req[v].route
         /\ req[w].method = req[v].method
         /\ req[w].params = req[v].params
         /\ Cardinality(DOMAIN req[w].params) >= 2)
            => call[w].args = call[v].args

\* ------------------------------------------------------------------------
\* Properties of the client's parameter convention (SpecTemplate)
\* ------------------------------------------------------------------------

\* C28: for every method, the parameters the server extracts from a request
\* the client made are the keyword arguments of the call.
C28_ServerSeesKwargs ==
    \A m \in ClientMethods, kw \in Kwargs :
        (ParamsExtracted /\ tmplRequest = MakeRequest(m, kw)) => tmplParams = kw

\* ------------------------------------------------------------------------
\* Properties of the store's lock (SpecStoreFair)
\* ------------------------------------------------------------------------

HoldsWrite(w) == muWriter = w

HoldsRead(w) == w \in muReaders

\* A goroutine holds the mutex only between taking it and the deferred
\* release, in one mode, and holds it neither before taking it nor once the
\* method has returned.
LockDiscipline ==
    \A w \in Workers :
        /\ HoldsWrite(w) =>
               /\ pc[w] \in {"locked", "stmt", "driver", "closing", "unlock"}
               /\ call[w].op \in WriterOps
               /\ muReaders = {}
        /\ HoldsRead(w) =>
               /\ pc[w] \in {"rlocked", "ping", "runlock"}
               /\ call[w].op \in ReaderOps
        /\ pc[w] \in {"idle", "lock", "rlock", "ret"} => ~HoldsWrite(w) /\ ~HoldsRead(w)

AllReturned == \A w \in Workers : pc[w] = "idle"

\* C29: every method releases the mutex on every return path and none takes
\* it twice, and a finite set of concurrent calls all return, provided the
\* goroutines are scheduled and the driver's calls return.
C29_CallsComplete == []LockDiscipline /\ <>AllReturned

\* One goroutine waits for the write lock that another holds inside the driver.
C29_Witness ==
    \E w, v \in Workers :
        /\ w # v
        /\ pc[w] = "lock"
        /\ HoldsWrite(v) /\ pc[v] = "driver"

\* ------------------------------------------------------------------------
\* Properties of main()'s startup order
\* ------------------------------------------------------------------------

\* The route table main() builds from the discovered files: one endpoint per
\* file in discovery order, the example endpoint when there is no file.
CompleteRouteTable ==
    IF sqlFiles = <<>> THEN createExampleEndpoints(BaseURL)
    ELSE [i \in 1..Len(sqlFiles) |-> AssembleEndpoint(sqlFiles[i], BaseURL)]

\* The server has been created from the route table, or is listening.
ServerCreated == mainPc \in {"start", "serving"}

\* main() has ended without a listening server.
StartupAborted == mainPc \in {"fatal", "panic"}

StartupOrdered ==
    \* NewServer returns the server of the complete route table
    /\ mainPc = "start" =>
           /\ sqlFiles = GlobSQLFiles(fsFiles)
           /\ endpoints = CompleteRouteTable
    /\ ServerCreated =>
           \* the store is open and no schema is waiting or being applied
           /\ connOpen /\ ~closed
           /\ schemaContent = ""
           /\ call[MainGoroutine] = NoCall /\ pc[MainGoroutine] = "idle"
           /\ result[MainGoroutine] = NoResult
           \* the route table is not empty and is registered
           /\ endpoints # <<>>
           /\ \A i \in 1..Len(endpoints) : endpoints[i].Path \in muxPatterns
    /\ \A w \in Handlers : hpc[w] # "idle" => mainPc = "serving"
    /\ StartupAborted => \A w \in Handlers : hpc[w] = "idle"

\* One step of main(), of the store or of a handler.
StartupStep ==
    \* discovery starts with no schema to apply or after ApplySchema returned nil
    /\ (mainPc # "glob" /\ mainPc' = "glob") =>
           \/ mainPc = "newdb" /\ schemaContent = ""
           \/ /\ mainPc = "schema"
              /\ pc[MainGoroutine] = "ret"
              /\ result[MainGoroutine].err = ""
    \* a failed ApplySchema or a failed walk ends main()
    /\ (mainPc = "schema" /\ pc[MainGoroutine] = "ret" /\ result[MainGoroutine].err # ""
           /\ mainPc' # mainPc) => mainPc' = "fatal"
    /\ (mainPc # "serving" /\ mainPc' = "serving") => mainPc = "start"
    /\ StartupAborted => mainPc' = mainPc
    /\ ServerCreated =>
           /\ fsFiles' = fsFiles
           /\ sqlFiles' = sqlFiles
           /\ endpoints' = endpoints
           /\ muxPatterns' = muxPatterns

\* C30: requests are accepted only once the store is open, the schema has
\* been applied without error and the complete, non-empty route table is
\* registered; a failure of the store, of the schema or of the discovery ends
\* main() with no server; the route table of a created server never changes.
C30_StartupOrdered == []StartupOrdered /\ [][StartupStep]_vars

\* No SQL file was found: the server serves the example endpoint and has
\* answered a request for it.
C30_Witness ==
    /\ mainPc = "serving"
    /\ sqlFiles = <<>>
    /\ endpoints = createExampleEndpoints(BaseURL)
    /\ \E w \in Handlers : hpc[w] = "done" /\ endpoints[req[w].route].Handler = ExampleHandler

====
